---- MODULE Spec2Model ----
(***************************************************************************)
(* Model of pysims/translators/dssat46/jsons2dssatlong.py: the fixed-width *)
(* field formatter, the legacy date encoder, the section tables            *)
(* (__set_sec_data), the composite soil ids and the treatment loop of      *)
(* DSSATXFileOutput.toXFile.                                               *)
(*                                                                         *)
(* Python dictionaries are functions from the keys that are present to     *)
(* their values, Python lists are sequences, and == on them is structural  *)
(* equality.  Text that is laid out in columns is a sequence of            *)
(* one-character strings.  A Python float is an integer number of eighths  *)
(* (every such value is an exact binary double, so '{:.nf}' rounds it      *)
(* half-to-even exactly as the code does).                                 *)
(***************************************************************************)
EXTENDS Integers, Sequences, FiniteSets, TLC

VARIABLES
    call, ret,                      \* a pure function applied to drawn inputs
    arr, m_in, idx_out, arr_before, interned,   \* one section table under __set_sec_data
    exp_file, soil_ids, cul_file,   \* exp.json, the soil source's ids, the CUL target
    exps,                           \* self.exps of DSSATXFileOutput
    pc, ei, sj,                     \* position in Jsons2DssatLong.run
    soil_profiles, soil_ic,         \* DSSATXFileOutput.__init__
    tabs, rows,                     \* toXFile: the section tables and the rows written
    sol_profiles, sol_blocks,       \* SOLFileOutput
    files, warned, printed,         \* run: files written, warnings given, lines printed
    x_dates                         \* toXFile: the dates written, section by section

fnVars     == <<call, ret>>
internVars == <<arr, m_in, idx_out, arr_before, interned>>
runVars    == <<exp_file, exps, soil_ids, cul_file, pc, ei, sj, soil_profiles, soil_ic,
                tabs, rows, sol_profiles, sol_blocks, files, warned, printed,
                x_dates>>
vars       == <<call, ret, arr, m_in, idx_out, arr_before, interned,
                exp_file, exps, soil_ids, cul_file, pc, ei, sj, soil_profiles, soil_ic,
                tabs, rows, sol_profiles, sol_blocks, files, warned, printed,
                x_dates>>

-----------------------------------------------------------------------------
(* Bounds of the model                                                     *)

MaxStrLen  == 3      \* longest text value drawn for for_str
MaxWidth   == 3      \* widest column drawn for for_str
MaxLead    == 1      \* most leading blanks drawn for for_str
MaxDec     == 2      \* most decimals drawn for for_str
MaxEighths == 90     \* largest float drawn for for_str, in eighths
MaxTrno    == 1500   \* largest raw treatment number
MaxInterns == 4      \* intern operations on the table under test
MaxExps    == 2      \* experiments in exp.json

-----------------------------------------------------------------------------
(* Python values and outcomes                                              *)

EmptyRec == << >>                                  \* {} and []
Has(dic, key) == key \in DOMAIN dic                \* key in dic
Put(dic, key, val) == [k \in DOMAIN dic \cup {key} |-> IF k = key THEN val ELSE dic[k]]
Pop(dic, key) == [k \in DOMAIN dic \ {key} |-> dic[k]]
Update(dic, other) == [k \in DOMAIN dic \cup DOMAIN other |->
                          IF k \in DOMAIN other THEN other[k] ELSE dic[k]]

Ok(v)    == [ok |-> TRUE,  val |-> v]
Raise(e) == [ok |-> FALSE, err |-> e]

Str(s) == [t |-> "str", s |-> s]       \* a Python str, as characters
Num(e) == [t |-> "num", e |-> e]       \* a Python float, in eighths

DigitChars == <<"0", "1", "2", "3", "4", "5", "6", "7", "8", "9">>
IsDigit(c) == \E d \in 1..10 : DigitChars[d] = c
DigitVal(c) == (CHOOSE d \in 1..10 : DigitChars[d] = c) - 1

RECURSIVE Pow10(_)
Pow10(n) == IF n <= 0 THEN 1 ELSE 10 * Pow10(n - 1)

RECURSIVE DigitsOf(_)
DigitsOf(n) == IF n < 10 THEN <<DigitChars[n + 1]>>
               ELSE DigitsOf(n \div 10) \o <<DigitChars[(n % 10) + 1]>>

RECURSIVE NatOf(_)
NatOf(s) == IF s = << >> THEN 0
            ELSE 10 * NatOf(SubSeq(s, 1, Len(s) - 1)) + DigitVal(s[Len(s)])

Rep(c, n) == [k \in 1..n |-> c]                    \* c * n
Take(s, n) == SubSeq(s, 1, IF n < Len(s) THEN n ELSE Len(s))      \* s[: n]
Rjust(s, w) == Rep(" ", w - Len(s)) \o s
Ljust(s, w) == s \o Rep(" ", w - Len(s))
Zfill(s, w) == IF s /= << >> /\ s[1] \in {"-", "+"}
               THEN <<s[1]>> \o Rep("0", w - Len(s)) \o Tail(s)
               ELSE Rep("0", w - Len(s)) \o s

-----------------------------------------------------------------------------
(* double(x) and '{:.nf}'.format(x)                                        *)

AllDigits(s) == \A k \in 1..Len(s) : IsDigit(s[k])
DotAt(s) == IF \E k \in 1..Len(s) : s[k] = "."
            THEN CHOOSE k \in 1..Len(s) : s[k] = "." /\ \A h \in 1..(k - 1) : s[h] /= "."
            ELSE 0

\* the unsigned part of a decimal literal: digits, at most one point, one digit at least
IsDecimal(s) ==
    LET d == DotAt(s) IN
    IF d = 0 THEN s /= << >> /\ AllDigits(s)
    ELSE /\ AllDigits(SubSeq(s, 1, d - 1))
         /\ AllDigits(SubSeq(s, d + 1, Len(s)))
         /\ Len(s) > 1

\* its value in thousandths times 8 / 1000, i.e. in eighths, when that is an integer
DecimalParts(ip, fp) ==
    [num |-> (NatOf(ip) * Pow10(Len(fp)) + NatOf(fp)) * 8, den |-> Pow10(Len(fp))]
DecimalEighths8000(s) ==
    LET d == DotAt(s)
    IN  DecimalParts(IF d = 0 THEN s ELSE SubSeq(s, 1, d - 1),
                     IF d = 0 THEN << >> ELSE SubSeq(s, d + 1, Len(s)))

Quotient(q) == q.num \div q.den
SignedDouble(sign, body) ==
    IF ~IsDecimal(body) THEN Raise("ValueError")
    ELSE Ok(IF sign = "-" THEN 0 - Quotient(DecimalEighths8000(body))
            ELSE Quotient(DecimalEighths8000(body)))
Double(x) ==
    IF x.t = "num" THEN Ok(x.e)
    ELSE IF x.s /= << >> /\ x.s[1] \in {"-", "+"} THEN SignedDouble(x.s[1], Tail(x.s))
    ELSE SignedDouble("+", x.s)

\* the strings double() turns into a float the model can hold exactly
Exact(s) ==
    LET sgn  == s /= << >> /\ s[1] \in {"-", "+"}
        body == IF sgn THEN Tail(s) ELSE s
    IN  IsDecimal(body) =>
            LET q == DecimalEighths8000(body) IN q.num % q.den = 0

\* q thousandths rounded half-even to ndec decimals, as an integer
RoundedTo(q, unit, ndec) ==
    IF ndec >= 3 THEN q * Pow10(ndec - 3)
    ELSE IF 2 * (q % unit) > unit THEN (q \div unit) + 1
    ELSE IF 2 * (q % unit) = unit /\ (q \div unit) % 2 = 1 THEN (q \div unit) + 1
    ELSE q \div unit
FixedDigits(rnd, ndec) ==
    DigitsOf(rnd \div Pow10(ndec)) \o
    (IF ndec > 0 THEN <<".">> \o Zfill(DigitsOf(rnd % Pow10(ndec)), ndec) ELSE << >>)
FormatF(e, ndec) ==
    (IF e < 0 THEN <<"-">> ELSE << >>) \o
    FixedDigits(RoundedTo((IF e < 0 THEN 0 - e ELSE e) * 125, Pow10(3 - ndec), ndec), ndec)

-----------------------------------------------------------------------------
(* for_str and for_field                                                   *)

\* the padding branches of for_str
Justify(var, vwidth, jtfy, zero_pad) ==
    IF jtfy = "r"
    THEN (IF zero_pad THEN Zfill(var, vwidth) ELSE Rjust(var, vwidth))
    ELSE (IF zero_pad THEN var \o Rep("0", vwidth - Len(var)) ELSE Ljust(var, vwidth))
\* the truncation of for_str
Truncate(raw, vwidth) == IF Len(raw) > vwidth THEN Take(raw, vwidth) ELSE raw

for_str_notrunc(vstr, nleading, vtype, vwidth, jtfy, ndec, zero_pad) ==
    IF vtype = "c" /\ vstr.t /= "str" THEN Raise("TypeError")
    ELSE IF vtype = "r" /\ ~Double(vstr).ok THEN Double(vstr)
    ELSE IF vtype \notin {"c", "r"} THEN Raise("Unknown variable type")
    ELSE IF jtfy \notin {"r", "l"} THEN Raise("Unknown jtfy method")
    ELSE Ok(Rep(" ", nleading) \o
            Justify(IF vtype = "c" THEN vstr.s ELSE FormatF(Double(vstr).val, ndec),
                    vwidth, jtfy, zero_pad))

for_str(vstr, nleading, vtype, vwidth, jtfy, ndec, zero_pad) ==
    IF vtype = "c" /\ vstr.t /= "str" THEN Raise("TypeError")
    ELSE IF vtype = "r" /\ ~Double(vstr).ok THEN Double(vstr)
    ELSE IF vtype \notin {"c", "r"} THEN Raise("Unknown variable type")
    ELSE IF jtfy \notin {"r", "l"} THEN Raise("Unknown jtfy method")
    ELSE Ok(Rep(" ", nleading) \o
            Justify(Truncate(IF vtype = "c" THEN vstr.s ELSE FormatF(Double(vstr).val, ndec),
                             vwidth),
                    vwidth, jtfy, zero_pad))

\* the warning 'Real number is too long' of for_str
for_str_warns(vstr, vtype, vwidth, ndec) ==
    vtype = "r" /\ Double(vstr).ok /\ Len(FormatF(Double(vstr).val, ndec)) > vwidth

\* the values of a dictionary and the default are Python strings
for_field(dic, key, dft, nleading, vtype, vwidth, jtfy, ndec) ==
    for_str(Str(IF Has(dic, key) THEN dic[key] ELSE dft),
            nleading, vtype, vwidth, jtfy, ndec, FALSE)

-----------------------------------------------------------------------------
(* ptransfer and swc_adjustments                                           *)
(* Soil water fractions are held in ten-thousandths; a product is cut to   *)
(* that grid, where the code rounds to the nearest double.                 *)

Unit == 10000
Mul(a, b) == (a * b) \div Unit
K(c, x) == (c * x) \div 1000                   \* c thousandths times x
Frac(e) == (e * Unit) \div 8                   \* a float held in eighths, on the grid

\* lines 59, 64, 65: c0 + cF*F + cG*G + cH*H + cFH*F*H + cGH*G*H + cFG*F*G
Regress(c, F18, G18, H18) ==
    K(c[1], F18) + K(c[2], G18) + K(c[3], H18) + K(c[4], Mul(F18, H18))
    + K(c[5], Mul(G18, H18)) + K(c[6], Mul(F18, G18)) + c[7]
W18(F18, G18, H18)  == Regress(<<-24, 487, 6, 5, -13, 68, 310>>, F18, G18, H18)
Y18(F18, G18, H18)  == Regress(<<-251, 195, 11, 6, -27, 452, 2990>>, F18, G18, H18)
AA18(F18, G18, H18) == Regress(<<278, 34, 22, -18, -27, -584, 780>>, F18, G18, H18)
X18(w)   == w + K(140, w) - 200                                  \* line 60
Z18(y)   == y + (K(1283, Mul(y, y)) - K(374, y) - 150)           \* line 66
AB18(aa) == aa + (K(636, aa) - 1070)                             \* line 67
AE18(F18, z, ab) == (ab + z) + (K(-97, F18) + 430)               \* lines 68-70
AF18(ae) == K(2650, Unit - ae)                                   \* line 71
AG18(af) == af * 1                                               \* line 72, I18 = 1
AH18(ag) == Unit - (ag * 1000) \div 2650                         \* line 78
AI18(af) == AH18(AG18(af)) - (Unit - (af * 1000) \div 2650)      \* line 73
AJ18(z, ai) == z + K(200, ai)                                    \* line 74

\* slll, the regression value of sldul, and slsat (lines 58-79)
PtSat(z, af) == [AJ18 |-> AJ18(z, AI18(af)), slsat |-> AH18(AG18(af))]
PtDul(F18, z, ab) == PtSat(z, AF18(AE18(F18, z, ab)))
PtChain(F18, G18, H18) ==
    [slll |-> X18(W18(F18, G18, H18))]
    @@ PtDul(F18, Z18(Y18(F18, G18, H18)), AB18(AA18(F18, G18, H18)))

PtReturn_noclamp(c) == [slll |-> c.slll, sldul |-> c.AJ18, slsat |-> c.slsat]

\* line 94
PtReturn(c) ==
    [slll |-> c.slll, sldul |-> IF c.AJ18 < c.slll THEN c.slll + 100 ELSE c.AJ18,
     slsat |-> c.slsat]

\* lines 46-56: the fractions F18 (sand), G18 (clay) and H18 (organic carbon)
PtFractions(cly, sil, oc) ==
    PtReturn(PtChain(Unit - cly \div 100 - sil \div 100, cly \div 100, oc))

\* slll, sldul and slsat of the five values returned; sksat and slbdm are not modelled
ptransfer(slcly, slsil, sloc, slcf) ==
    IF ~Double(slcly).ok \/ ~Double(slsil).ok \/ ~Double(slcf).ok \/ ~Double(sloc).ok
    THEN Raise("ValueError")
    ELSE Ok(PtFractions(Frac(Double(slcly).val), Frac(Double(slsil).val),
                        Frac(Double(sloc).val)))

slll_min == 400                             \* line 101, on the grid
slsat_sldul_min_offset == 500              \* line 117, on the grid
SwcSat_keep(sldul, slll, slsat) == [sldul |-> sldul, slll |-> slll, slsat |-> slsat]

\* lines 116-121
SwcSat(sldul, slll, slsat) ==
    [sldul |-> sldul, slll |-> slll,
     slsat |-> IF slsat - sldul < slsat_sldul_min_offset THEN sldul + slsat_sldul_min_offset ELSE slsat]

SwcShift_unclamped(sldul, slll, slsat, slll_delta) ==
    SwcSat(sldul + slll_delta, slll - slll_delta, slsat)

\* lines 111-114
SwcShift(sldul, slll, slsat, slll_delta) ==
    IF slll - slll_delta < slll_min
    THEN SwcSat(sldul + (slll - slll_min), slll - (slll - slll_min), slsat)
    ELSE SwcSat(sldul + slll_delta, slll - slll_delta, slsat)

swc_adjustments(sldul, slll, slsat, swc_delta) ==
    IF slll <= slll_min THEN [sldul |-> sldul, slll |-> slll, slsat |-> slsat]
    ELSE SwcShift(sldul, slll, slsat, (slll + ((sldul - slll) + swc_delta) - sldul) \div 2)

-----------------------------------------------------------------------------
(* DSSATXFileOutput.__set_sec_data: a section table is a list of records   *)

\* the first j with arr[j] == m, or 0
FirstIndex(arr_, m) ==
    IF \E j \in 1..Len(arr_) : arr_[j] = m
    THEN CHOOSE j \in 1..Len(arr_) : arr_[j] = m /\ \A h \in 1..(j - 1) : arr_[h] /= m
    ELSE 0

set_sec_data_always_append(m, arr_) ==
    IF m /= EmptyRec
    THEN [idx |-> Len(arr_) + 1, arr |-> Append(arr_, m)]
    ELSE [idx |-> 0, arr |-> arr_]

set_sec_data_zero_based(m, arr_) ==
    IF m /= EmptyRec
    THEN IF FirstIndex(arr_, m) /= 0
         THEN [idx |-> FirstIndex(arr_, m) - 1, arr |-> arr_]
         ELSE [idx |-> Len(arr_) + 1, arr |-> Append(arr_, m)]
    ELSE [idx |-> 0, arr |-> arr_]

set_sec_data_keeps_empty(m, arr_) ==
    IF FirstIndex(arr_, m) /= 0
    THEN [idx |-> FirstIndex(arr_, m), arr |-> arr_]
    ELSE [idx |-> IF m = EmptyRec THEN 0 ELSE Len(arr_) + 1, arr |-> Append(arr_, m)]

set_sec_data_prepends(m, arr_) ==
    IF m /= EmptyRec
    THEN IF FirstIndex(arr_, m) /= 0
         THEN [idx |-> FirstIndex(arr_, m), arr |-> arr_]
         ELSE [idx |-> 1, arr |-> <<m>> \o arr_]
    ELSE [idx |-> 0, arr |-> arr_]

set_sec_data(m, arr_) ==
    IF m /= EmptyRec
    THEN IF FirstIndex(arr_, m) /= 0
         THEN [idx |-> FirstIndex(arr_, m), arr |-> arr_]
         ELSE [idx |-> Len(arr_) + 1, arr |-> Append(arr_, m)]
    ELSE [idx |-> 0, arr |-> arr_]

-----------------------------------------------------------------------------
(* datetime.date and DSSATXFileOutput.__translate_date_str                 *)

MinStrftimeYear == 1900       \* strftime refuses earlier years
MaxDateYear     == 9999       \* datetime.MAXYEAR

IsLeap(y) == (y % 4 = 0 /\ y % 100 /= 0) \/ y % 400 = 0
DaysInMonth(y, mo) == IF mo = 2 THEN (IF IsLeap(y) THEN 29 ELSE 28)
                      ELSE IF mo \in {4, 6, 9, 11} THEN 30 ELSE 31
ValidDate(y, mo, d) == /\ y \in 1..MaxDateYear
                       /\ mo \in 1..12
                       /\ d \in 1..DaysInMonth(y, mo)

RECURSIVE DaysBefore(_, _)
DaysBefore(y, mo) == IF mo <= 1 THEN 0 ELSE DaysBefore(y, mo - 1) + DaysInMonth(y, mo - 1)
DayOfYear(y, mo, d) == DaysBefore(y, mo) + d

\* datetime.date(y, mo, d).strftime('%y%j')
StrftimeYJ(y, mo, d) ==
    IF ~ValidDate(y, mo, d) THEN Raise("ValueError")
    ELSE IF y < MinStrftimeYear THEN Raise("ValueError")
    ELSE Ok(Zfill(DigitsOf(y % 100), 2) \o Zfill(DigitsOf(DayOfYear(y, mo, d)), 3))

\* int(s) of a run of characters
IntOf(s) == IF s /= << >> /\ AllDigits(s) THEN Ok(NatOf(s)) ELSE Raise("ValueError")

translate_date_str(date_str) ==
    IF Len(date_str) < 8 THEN Ok(date_str)
    ELSE LET year  == IntOf(SubSeq(date_str, 1, 4))
             month == IntOf(SubSeq(date_str, 5, 6))
             day   == IntOf(SubSeq(date_str, 7, 8))
         IN  IF ~year.ok THEN year
             ELSE IF ~month.ok THEN month
             ELSE IF ~day.ok THEN day
             ELSE StrftimeYJ(year.val + (IF year.val < 1900 THEN 100 ELSE 0),
                             month.val, day.val)

\* lines 1015-1022: yyyymmdd to yyyyddd
translate_date_str_y2k(date_str) ==
    IF Len(date_str) < 8 THEN Ok(date_str)
    ELSE LET year  == IntOf(SubSeq(date_str, 1, Len(date_str) - 4))
             month == IntOf(SubSeq(date_str, Len(date_str) - 3, Len(date_str) - 2))
             day   == IntOf(SubSeq(date_str, Len(date_str) - 1, Len(date_str)))
         IN  IF ~year.ok THEN year
             ELSE IF ~month.ok THEN month
             ELSE IF ~day.ok THEN day
             ELSE IF ~ValidDate(year.val, month.val, day.val) THEN Raise("ValueError")
             ELSE Ok(DigitsOf(year.val)
                       \o Zfill(DigitsOf(DayOfYear(year.val, month.val, day.val)), 3))

-----------------------------------------------------------------------------
(* The treatment number of a row                                           *)

NormTrno_mod1000(trno) == ((trno - 1) % 1000) + 1

NormTrno(trno) == ((trno - 1) % 999) + 1

\* sq_data['trno'] = str(...) and the N column of the row
TrnoRow(trno, f) == IF f.ok THEN Ok([trno |-> trno, text |-> f.val]) ELSE f
TrnoText(sq_data, trno) ==
    TrnoRow(trno, for_field(Put(sq_data, "trno", trno.s), "trno", <<"1">>, 0, "r", 7, "l", 0))
TrnoOf(sq_data, t) ==
    IF ~t.ok THEN t ELSE TrnoText(sq_data, Str(DigitsOf(NormTrno(t.val))))
TrnoField(sq_data) ==
    IF ~Has(sq_data, "trno") THEN Raise("KeyError")
    ELSE TrnoOf(sq_data, IntOf(sq_data["trno"]))

-----------------------------------------------------------------------------
(* Text values of the experiment data (JSON strings, as characters)        *)

Def99      == <<"-", "9", "9">>                            \* def_val_R, def_val
Zero       == <<"0">>
One        == <<"1">>
Two        == <<"2">>
SoilA      == <<"S", "A">>
SoilB      == <<"S", "B">>
SoilALong  == <<"S", "A", "_", "1", "2", "3", "4", "5", "6", "7", "8">>
SoilDft    == <<"X", "Y", "0", "1", "2", "3", "4", "5", "6", "7">>
Wst1       == <<"W", "1">>
Date1      == <<"1", "9", "9", "5", "0", "6", "1", "5">>
Date2      == <<"1", "9", "9", "5", "1", "0", "0", "1">>
Blank      == <<" ">>
Planting   == <<"p", "l", "a", "n", "t", "i", "n", "g">>
Irrigation == <<"i", "r", "r", "i", "g", "a", "t", "i", "o", "n">>
Fertilizer == <<"f", "e", "r", "t", "i", "l", "i", "z", "e", "r">>
OrganicM   == <<"o", "r", "g", "a", "n", "i", "c", "_", "m", "a", "t", "t", "e", "r">>
Chemical   == <<"c", "h", "e", "m", "i", "c", "a", "l">>
Tillage    == <<"t", "i", "l", "l", "a", "g", "e">>
Harvest    == <<"h", "a", "r", "v", "e", "s", "t">>
Maize      == <<"M", "Z">>
YesFlag    == <<"Y">>

Restrict(dic, keys) == [k \in DOMAIN dic \cap keys |-> dic[k]]
Get(dic, key, dft) == IF Has(dic, key) THEN dic[key] ELSE dft        \* __get_obj
CopyItem(to, frm, to_key, frm_key) ==                                \* __copy_item
    IF Has(frm, frm_key) THEN Put(to, to_key, frm[frm_key]) ELSE to
Find(str, c) == IF \E k \in 1..Len(str) : str[k] = c                 \* str.find(c) + 1
                THEN CHOOSE k \in 1..Len(str) : str[k] = c /\ \A h \in 1..(k - 1) : str[h] /= c
                ELSE 0
Strip(str) == SelectSeq(str, LAMBDA c : c /= " ")    \* '' exactly when str.strip() is ''
IndexOf(list, x) == IF \E k \in 1..Len(list) : list[k] = x           \* list.index(x) + 1
                    THEN CHOOSE k \in 1..Len(list) : list[k] = x /\ \A h \in 1..(k - 1) : list[h] /= x
                    ELSE 0
Member(list, x) == \E k \in 1..Len(list) : list[k] = x

-----------------------------------------------------------------------------
(* Composite soil ids                                                      *)

\* soil ids longer than 10 characters are cut at the first underscore
CutSoilId(soil_id) ==
    IF Len(soil_id) > 10 /\ Find(soil_id, "_") /= 0
    THEN SubSeq(soil_id, 1, Find(soil_id, "_") - 1)
    ELSE soil_id

SoilModKeys == {"delta_cly", "delta_swc", "slpf", "sldr_min", "slro_max",
                "null_out_vars", "slsnd_max", "sloc_min", "slhw", "slhw_min"}
SoilModDft(key) == IF key = "delta_cly" THEN Zero ELSE Def99

\* the soil parameters of an experiment with the defaults filled in
SoilProfileOf(exp) ==
    [k \in SoilModKeys \cup {"soil_id"} |->
        IF k = "soil_id"
        THEN (IF Has(exp, "soil_id") THEN CutSoilId(exp["soil_id"]) ELSE SoilDft)
        ELSE Get(exp, k, SoilModDft(k))]

\* 'SL' + str(n).zfill(8)
SLId(n) == <<"S", "L">> \o Zfill(DigitsOf(n), 8)

\* one pass of the loop of DSSATXFileOutput.__init__ over experiment exp
XInitBody_unchecked(exp, profiles, ic, ids) ==
    LET soil_profile == SoilProfileOf(exp)
        appended     == Append(profiles, soil_profile)
    IN  IF Member(profiles, soil_profile)
        THEN Ok([soil_profiles |-> profiles, soil_ic |-> ic])
        ELSE Ok([soil_profiles |-> appended,
                 soil_ic |-> Put(ic, SLId(Len(appended)),
                                 [soil_idx |-> IndexOf(ids, soil_profile["soil_id"]),
                                  soil_profile |-> soil_profile])])

XInitBody_no_reuse(exp, profiles, ic, ids) ==
    LET soil_profile == SoilProfileOf(exp)
        soil_idx     == IndexOf(ids, soil_profile["soil_id"])
        appended     == Append(profiles, soil_profile)
    IN  IF soil_idx = 0 THEN Raise("ValueError")
        ELSE Ok([soil_profiles |-> appended,
                 soil_ic |-> Put(ic, SLId(Len(appended)),
                                 [soil_idx |-> soil_idx, soil_profile |-> soil_profile])])

XInitBody(exp, profiles, ic, ids) ==
    LET soil_profile == SoilProfileOf(exp)
        soil_idx     == IndexOf(ids, soil_profile["soil_id"])
        appended     == Append(profiles, soil_profile)
    IN  IF Member(profiles, soil_profile)
        THEN Ok([soil_profiles |-> profiles, soil_ic |-> ic])
        ELSE IF soil_idx = 0 THEN Raise("ValueError")
        ELSE Ok([soil_profiles |-> appended,
                 soil_ic |-> Put(ic, SLId(Len(appended)),
                                 [soil_idx |-> soil_idx, soil_profile |-> soil_profile])])

\* one pass of the loop of SOLFileOutput.__init__ over experiment exp
SolInitBody(exp, profiles, ids) ==
    LET p            == SoilProfileOf(exp)
        soil_idx     == IndexOf(ids, p["soil_id"])
        soil_profile == Put(p, "soil_idx", soil_idx)
    IN  IF soil_idx = 0 THEN Raise("ValueError")
        ELSE IF Member(profiles, soil_profile) THEN Ok(profiles)
        ELSE Ok(Append(profiles, soil_profile))

-----------------------------------------------------------------------------
(* DSSATXFileOutput.toXFile: the treatment loop                            *)

Sections == {"cu", "fl", "sa", "ic", "mp", "mi", "mf", "mr", "mc", "mt", "me", "mh", "sm"}
Tables   == Sections \cup {"fl2", "cult_param", "eco_param"}
EmptyTables == [t \in Tables |-> << >>]

GetList(data, block_name, list_name) == Get(Get(data, block_name, EmptyRec), list_name, << >>)

\* __read_sw_data(data, 'soil'): null, one dictionary or a list of them
ReadSwData(data) ==
    IF ~Has(data, "soil") THEN Raise("KeyError")
    ELSE IF data["soil"].k = "null" THEN Ok(<< >>)
    ELSE IF data["soil"].k = "list" THEN Ok(data["soil"].l)
    ELSE Ok(<<data["soil"].d>>)

\* __get_params_from_id
GetParamsFromId(list, seqid) ==
    LET at == CHOOSE k \in 1..Len(list) :
                 list[k]["seqid"] = seqid /\ \A h \in 1..(k - 1) : list[h]["seqid"] /= seqid
    IN  IF list = << >> THEN EmptyRec
        ELSE IF \E k \in 1..Len(list) : list[k]["seqid"] = seqid THEN Pop(list[at], "seqid")
        ELSE EmptyRec

FlRootKeys == {"id_field", "flsl", "flob", "fl_drntype", "fldrd", "fldrs", "flst", "soil_id",
               "fl_name", "fl_lat", "fl_long", "flele", "farea", "fllwr", "flsla"}

\* lines 388-415: the field record of a sequence, before the composite soil id
FieldData(root_data, soil_data) ==
    LET a == Put(Restrict(root_data, FlRootKeys), "wst_id", root_data["wst_id"])
        b == IF Has(soil_data, "sltx") THEN CopyItem(a, soil_data, "sltx", "sltx")
             ELSE CopyItem(a, root_data, "sltx", "sltx")
        c == CopyItem(b, soil_data, "sldp", "sldp")
        d == Update(c, Restrict(Get(root_data, "dssat_info", EmptyRec), {"flhst", "fhdur"}))
    IN  IF Has(d, "soil_id") THEN Put(d, "soil_id", CutSoilId(d["soil_id"])) ELSE d

\* lines 417-427: the record that keys the composite soil id in toXFile
FieldData2(fl_data, root_data) ==
    Update([soil_id |-> fl_data["soil_id"]], Restrict(root_data, SoilModKeys))

\* lines 439-445
EnvMods(me_org_arr, em) ==
    LET hit == SelectSeq(me_org_arr, LAMBDA e : e["em"] = em)
    IN  [k \in 1..Len(hit) |-> Pop(hit[k], "em")]

\* lines 447-466: the soil-analysis record, or nothing
SoilAnalysis(soil_data) ==
    LET soil_layers == Get(soil_data, "soilLayer", << >>)
        has_soil_analysis == \E k \in 1..Len(soil_layers) : Get(soil_layers[k], "slsc", << >>) /= << >>
        sa_sub_arr == [k \in 1..Len(soil_layers) |->
                          CopyItem(CopyItem(EmptyRec, soil_layers[k], "sabl", "sllb"),
                                   soil_layers[k], "sasc", "slsc")]
    IN  IF has_soil_analysis
        THEN Put(CopyItem(EmptyRec, soil_data, "sadat", "sadat"), "soilLayer", sa_sub_arr)
        ELSE EmptyRec

\* lines 468-475
SimControl(sm_org_arr, sm, root_data) ==
    LET at == CHOOSE k \in 1..Len(sm_org_arr) :
                 sm_org_arr[k]["sm"] = sm /\ \A h \in 1..(k - 1) : sm_org_arr[h]["sm"] /= sm
        sm_data == IF \E k \in 1..Len(sm_org_arr) : sm_org_arr[k]["sm"] = sm
                   THEN Pop(sm_org_arr[at], "sm") ELSE EmptyRec
    IN  CopyItem(sm_data, root_data, "sdat", "sdat")

EventListOf == [k \in {Irrigation, Fertilizer, OrganicM, Chemical, Tillage, Harvest} |->
                   IF k = Irrigation THEN "mi" ELSE IF k = Fertilizer THEN "mf"
                   ELSE IF k = OrganicM THEN "mr" ELSE IF k = Chemical THEN "mc"
                   ELSE IF k = Tillage THEN "mt" ELSE "mh"]

CulId_one_based(cu_num2) == <<"C", "C">> \o Zfill(DigitsOf(cu_num2), 4)
\* line 503: 'CC' + str(cu_num2 - 1).zfill(4)
CulId(cu_num2) == <<"C", "C">> \o Zfill(DigitsOf(cu_num2 - 1), 4)

\* lines 487-513: a planting event of the sequence
PlantingEvent(acc, evt_data, evt_seq_id, cult_arr, ecotype_arr, culfile) ==
    LET cu_data2  == GetParamsFromId(cult_arr, evt_seq_id)
        eco_data2 == GetParamsFromId(ecotype_arr, evt_seq_id)
        use_params == culfile /\ cu_data2 /= EmptyRec
        eco_r     == set_sec_data(CopyItem(eco_data2, evt_data, "crid", "crid"), acc.eco_param)
        cu2a      == CopyItem(cu_data2, evt_data, "crid", "crid")
        cu2b      == IF eco_data2 /= EmptyRec
                     THEN Put(cu2a, "eco", Zfill(DigitsOf(eco_r.idx), 6)) ELSE cu2a
        cu_r      == set_sec_data(cu2b, acc.cult_param)
        cu_a      == IF use_params
                     THEN Put(acc.cu, "cul_id", CulId(cu_r.idx))
                     ELSE CopyItem(CopyItem(acc.cu, evt_data, "cul_id", "cul_id"),
                                   evt_data, "dssat_cul_id", "dssat_cul_id")
        cu_b      == Update(cu_a, Restrict(evt_data, {"cul_name", "crid", "rm", "cul_notes"}))
        mp_a      == Update(acc.mp, evt_data)
    IN  IF ~({"cul_name", "cul_id", "crid"} \subseteq DOMAIN mp_a)
        THEN [acc EXCEPT !.err = "KeyError"]
        ELSE [acc EXCEPT !.cu = cu_b,
                         !.mp = Restrict(mp_a, DOMAIN mp_a \ {"cul_name", "cul_id", "crid"}),
                         !.eco_param  = IF use_params /\ eco_data2 /= EmptyRec
                                        THEN eco_r.arr ELSE acc.eco_param,
                         !.cult_param = IF use_params THEN cu_r.arr ELSE acc.cult_param]

EventCopy_keeps_seqid(evt) == evt
\* lines 479-485: the event is copied and the copy loses its seqid
EventCopy(evt) == Pop(evt, "seqid")

\* lines 477-532: the events of the experiment, in order, for one sequence
RECURSIVE EventLoop(_, _, _, _, _, _, _)
EventLoop(k, acc, evt_arr, seq_id, cult_arr, ecotype_arr, culfile) ==
    IF k > Len(evt_arr) \/ acc.err /= "" THEN acc
    ELSE LET evt_seq_id == Get(evt_arr[k], "seqid", << >>)
             evt_data   == EventCopy(evt_arr[k])
             kind       == Get(evt_data, "event", << >>)
             nxt ==
                IF evt_seq_id /= seq_id THEN acc
                ELSE IF ~Has(evt_arr[k], "seqid") THEN [acc EXCEPT !.err = "KeyError"]
                ELSE IF kind = Planting
                THEN PlantingEvent(acc, evt_data, evt_seq_id, cult_arr, ecotype_arr, culfile)
                ELSE IF kind \in DOMAIN EventListOf
                THEN LET a == [acc EXCEPT ![EventListOf[kind]] = Append(@, evt_data)]
                     IN  IF kind = Harvest /\ Strip(Get(evt_data, "date", << >>)) /= << >>
                         THEN [a EXCEPT !.sm = Put(@, "hadat_valid", YesFlag)]
                         ELSE a
                ELSE acc
         IN  EventLoop(k + 1, nxt, evt_arr, seq_id, cult_arr, ecotype_arr, culfile)

-----------------------------------------------------------------------------
(* DSSATXFileOutput.__add_param_mods                                       *)

\* str(x) of a float: the shortest decimal, one fractional digit at least
StrOfFloat(e) ==
    FormatF(e, IF (e * 125) % 100 = 0 THEN 1 ELSE IF (e * 125) % 10 = 0 THEN 2 ELSE 3)

\* round(x): to the nearest whole number, halves away from zero
RoundHalfAway(e) ==
    IF e < 0 THEN 0 - (((0 - e) + 4) \div 8) * 8 ELSE ((e + 4) \div 8) * 8

MinOf(a, b) == IF a < b THEN a ELSE b
MaxOf(a, b) == IF a > b THEN a ELSE b

\* lines 1365-1383: the new value of orig[key], or the old one when the try block raises
ModOp_scale_first(key, mods) ==
    IF Has(mods, "scale_" \o key) THEN "scale_"
    ELSE IF Has(mods, "offset_" \o key) THEN "offset_"
    ELSE IF Has(mods, "max_" \o key) THEN "max_"
    ELSE IF Has(mods, "min_" \o key) THEN "min_"
    ELSE IF Has(mods, "set_" \o key) THEN "set_"
    ELSE "none"

ModOp(key, mods) ==
    IF Has(mods, "offset_" \o key) THEN "offset_"
    ELSE IF Has(mods, "scale_" \o key) THEN "scale_"
    ELSE IF Has(mods, "max_" \o key) THEN "max_"
    ELSE IF Has(mods, "min_" \o key) THEN "min_"
    ELSE IF Has(mods, "set_" \o key) THEN "set_"
    ELSE "none"
ModArith(op, v, mv) ==
    IF ~v.ok \/ ~mv.ok THEN Raise("ValueError")
    ELSE Ok(StrOfFloat(IF op = "offset_" THEN v.val + mv.val
                       ELSE IF op = "scale_" THEN (v.val * mv.val) \div 8
                       ELSE IF op = "max_" THEN MinOf(v.val, mv.val)
                       ELSE MaxOf(v.val, mv.val)))
\* lines 1367-1376
ModApply(op, key, val, mods) ==
    IF op = "none" THEN Ok(val)
    ELSE IF op = "set_" THEN Ok(mods[op \o key])
    ELSE ModArith(op, Double(Str(val)), Double(Str(mods[op \o key])))
ModRounded(d) ==
    IF ~d.ok THEN Raise("ValueError") ELSE Ok(Take(StrOfFloat(RoundHalfAway(d.val)), 6))
\* lines 1378-1379
ModRound(key, one) ==
    IF ~one.ok \/ key \notin {"cul_id", "eco"} THEN one ELSE ModRounded(Double(Str(one.val)))
ModResult_blank(val, two) == IF two.ok THEN two.val ELSE << >>

ModResult(val, two) == IF two.ok THEN two.val ELSE val

\* lines 1364-1383: the new value of orig[key], or the old one when the try block raises
ModValue(key, val, mods) ==
    ModResult(val, ModRound(key, ModApply(ModOp(key, mods), key, val, mods)))

SeqIdsOf(list) == {list[k]["seqid"] : k \in 1..Len(list)}
FirstWithSeqId(list, seqid) ==
    CHOOSE k \in 1..Len(list) :
        list[k]["seqid"] = seqid /\ \A h \in 1..(k - 1) : list[h]["seqid"] /= seqid

\* the records of the list after the call; the list holds the very dictionaries
\* of the experiment, so these are the experiment's records from then on
add_param_mods(list, mod_arr) ==
    IF list = << >> \/ mod_arr = << >> THEN list
    ELSE [k \in 1..Len(list) |->
            IF /\ list[k]["seqid"] \in SeqIdsOf(mod_arr)
               /\ k = FirstWithSeqId(list, list[k]["seqid"])
            THEN LET mods == mod_arr[FirstWithSeqId(mod_arr, list[k]["seqid"])]
                 IN  [key \in DOMAIN list[k] |-> ModValue(key, list[k][key], mods)]
            ELSE list[k]]

-----------------------------------------------------------------------------
(* toXFile: lines 340-357 for one experiment, lines 360-565 for one sequence *)

HasSeqIds(list) == \A k \in 1..Len(list) : Has(list[k], "seqid")

ModsKey(k) == IF k = "cultivar" THEN "cultivar_mods" ELSE "ecotype_mods"
ModsMissSeqId(exp, k) ==
    /\ Get(exp, k, << >>) /= << >> /\ Get(exp, ModsKey(k), << >>) /= << >>
    /\ ~(HasSeqIds(Get(exp, k, << >>)) /\ HasSeqIds(Get(exp, ModsKey(k), << >>)))

BeginExpBody(exp) ==
    IF ~ReadSwData(exp).ok THEN ReadSwData(exp)
    ELSE IF ModsMissSeqId(exp, "cultivar") \/ ModsMissSeqId(exp, "ecotype")
    THEN Raise("KeyError")
    ELSE Ok(Update(exp, [k \in DOMAIN exp \cap {"cultivar", "ecotype"} |->
                            add_param_mods(exp[k], Get(exp, ModsKey(k), << >>))]))

SmNum_raw(sm_idx) == sm_idx

\* lines 543-545
SmNum(sm_idx) == IF sm_idx = 0 THEN 1 ELSE sm_idx

\* lines 381-386
RootData(exp, j) ==
    LET root_arr  == Get(exp, "dssat_root", << >>)
        root_data == IF j <= Len(root_arr) THEN root_arr[j] ELSE exp
    IN  IF Has(root_data, "delta_cly") THEN root_data ELSE Put(root_data, "delta_cly", Zero)

\* lines 372-379
SoilData(soil_arr, j) ==
    IF j <= Len(soil_arr) THEN soil_arr[j]
    ELSE IF soil_arr = << >> THEN EmptyRec ELSE soil_arr[1]

\* lines 435-436
InitialConditions(root_data, fl_data) ==
    Put(Get(root_data, "initial_conditions", EmptyRec),
        "soil_id_composite", fl_data["soil_id_composite"])

\* the experiment as the sequence leaves it: delta_cly, the initial conditions and
\* trno are written into the dictionaries of the experiment themselves
MutatedExp(exp, j, root_data, fl_data, trno) ==
    LET root_arr == Get(exp, "dssat_root", << >>)
        sq_arr   == GetList(exp, "dssat_sequence", "data")
        root2    == IF Has(root_data, "initial_conditions")
                    THEN Put(root_data, "initial_conditions",
                             InitialConditions(root_data, fl_data))
                    ELSE root_data
        root3    == IF j <= Len(root_arr)
                    THEN Put(exp, "dssat_root", [root_arr EXCEPT ![j] = root2])
                    ELSE root2
    IN  Put(root3, "dssat_sequence",
            Put(exp["dssat_sequence"], "data",
                [sq_arr EXCEPT ![j] = Put(sq_arr[j], "trno", trno)]))

RowIndex_rjust(num) == for_str(Str(DigitsOf(num)), 1, "r", 7, "r", 0, FALSE).val
\* lines 553-565: for_str(str(num), 1, 'r', 7, jtfy = 'l')
RowIndex(num) == for_str(Str(DigitsOf(num)), 1, "r", 7, "l", 0, FALSE).val

\* lines 534-565: the records are interned and the row is written
SeqRow(exp, j, tb, root_data, fl_data, rec, acc, tf, res) ==
    IF acc.err /= "" THEN Raise(acc.err)
    ELSE IF ~tf.ok THEN tf
    ELSE Ok([exp  |-> MutatedExp(exp, j, root_data, fl_data, tf.val.trno.s),
             tabs |-> [t \in Tables |->
                          IF t = "fl2" THEN tb.fl2
                          ELSE IF t = "cult_param" THEN acc.cult_param
                          ELSE IF t = "eco_param" THEN acc.eco_param
                          ELSE res[t].arr],
             row  |-> [trno |-> tf.val.trno.s, text |-> tf.val.text,
                       num |-> [c \in Sections |->
                                   IF c = "sm" THEN SmNum(res[c].idx) ELSE res[c].idx],
                       cols |-> [c \in Sections |->
                                    RowIndex(IF c = "sm" THEN SmNum(res[c].idx)
                                                         ELSE res[c].idx)],
                       rec |-> rec]])

SeqIntern(exp, j, tb, root_data, fl_data, rec, acc, tf) ==
    SeqRow(exp, j, tb, root_data, fl_data, rec, acc, tf,
           [c \in Sections |-> set_sec_data(rec[c], tb[c])])

\* lines 434-532: the other records of the sequence
SeqRecords(exp, j, tb, root_data, soil_data, fl_data, sq_data, acc) ==
    SeqIntern(exp, j, tb, root_data, fl_data,
              [c \in Sections |->
                  IF c = "fl" THEN fl_data
                  ELSE IF c = "ic" THEN InitialConditions(root_data, fl_data)
                  ELSE IF c = "sa" THEN SoilAnalysis(soil_data)
                  ELSE IF c = "me"
                  THEN EnvMods(GetList(exp, "dssat_environment_modification", "data"),
                               Get(sq_data, "em", << >>))
                  ELSE acc[c]],
              acc, TrnoField(sq_data))

SeqEvents(exp, j, tb, culfile, root_data, soil_data, fl_data, sq_data) ==
    SeqRecords(exp, j, tb, root_data, soil_data, fl_data, sq_data,
               EventLoop(1, [cu |-> EmptyRec, mp |-> EmptyRec,
                             sm |-> SimControl(GetList(exp, "dssat_simulation_control", "data"),
                                               Get(sq_data, "sm", << >>), root_data),
                             mi |-> << >>, mf |-> << >>, mr |-> << >>, mc |-> << >>,
                             mt |-> << >>, mh |-> << >>,
                             cult_param |-> tb.cult_param, eco_param |-> tb.eco_param,
                             err |-> ""],
                         GetList(exp, "management", "events"), Get(sq_data, "seqid", << >>),
                         Get(exp, "cultivar", << >>), Get(exp, "ecotype", << >>), culfile))

\* lines 429-431: the composite soil id of the sequence
SeqSoilId(exp, j, tb, culfile, root_data, soil_data, fl0, r_fl2) ==
    SeqEvents(exp, j, [tb EXCEPT !.fl2 = r_fl2.arr], culfile, root_data, soil_data,
              Put(fl0, "soil_id_composite", SLId(r_fl2.idx)),
              GetList(exp, "dssat_sequence", "data")[j])

\* lines 388-429
SeqField(exp, j, tb, culfile, root_data, soil_data, fl0) ==
    IF ~Has(fl0, "soil_id") THEN Raise("KeyError")
    ELSE SeqSoilId(exp, j, tb, culfile, root_data, soil_data, fl0,
                   set_sec_data(FieldData2(fl0, root_data), tb.fl2))

SeqRoot(exp, j, tb, culfile, root_data, soil_data) ==
    IF ~Has(root_data, "wst_id") THEN Raise("KeyError")
    ELSE SeqField(exp, j, tb, culfile, root_data, soil_data, FieldData(root_data, soil_data))

\* lines 360-565: sequence j of an experiment
SeqBody(exp, j, tb, culfile) ==
    SeqRoot(exp, j, tb, culfile, RootData(exp, j), SoilData(ReadSwData(exp).val, j))

-----------------------------------------------------------------------------
(* Pure functions applied to drawn inputs                                  *)

Pending == [ok |-> FALSE, err |-> "pending"]

RECURSIVE SeqsUpTo(_, _)
SeqsUpTo(S, n) == IF n = 0 THEN {<< >>}
                  ELSE LET P == SeqsUpTo(S, n - 1)
                       IN  P \cup {Append(s, c) : s \in {p \in P : Len(p) = n - 1}, c \in S}

FmtChars == {"1", "5", "-", ".", "a"}
FmtValues == {Str(s) : s \in {t \in SeqsUpTo(FmtChars, MaxStrLen) : Exact(t)}}
                 \cup {Num(e) : e \in (0 - MaxEighths)..MaxEighths}

ForStrCalls ==
    [fn : {"for_str"}, vstr : FmtValues, nleading : 0..MaxLead, vtype : {"c", "r", "i"},
     vwidth : 0..MaxWidth, jtfy : {"r", "l", "c"}, ndec : 0..MaxDec, zero_pad : BOOLEAN]

ForFieldCalls ==
    [fn : {"for_field"}, dic : {EmptyRec, [x |-> <<"1", ".", "5">>], [x |-> <<"a", "a", "-">>]},
     key : {"x"}, dft : {<<"-", "9", "9">>}, nleading : 0..MaxLead, vtype : {"c", "r"},
     vwidth : 0..MaxWidth, jtfy : {"r", "l"}, ndec : 0..MaxDec]

YearPool == {1, 1500, 1600, 1700, 1799, 1800, 1804, 1875, 1899, 1900, 1995, 2000, 2023}
DateCalls ==
    {[fn |-> "translate_date_str",
      date_str |-> Zfill(DigitsOf(y), 4) \o Zfill(DigitsOf(mo), 2) \o Zfill(DigitsOf(d), 2),
      y |-> y, mo |-> mo, d |-> d] : y \in YearPool, mo \in 1..12, d \in 1..31}
    \cup {[fn |-> "translate_date_str", date_str |-> s, y |-> 0, mo |-> 0, d |-> 0] :
            s \in {<<"-", "9", "9">>, << >>, <<"1", "9", "9", "5", "0", "6", "1">>}}

TrnoCalls == {[fn |-> "trno", sq_data |-> [trno |-> DigitsOf(n)], n |-> n] : n \in 1..MaxTrno}

InternIdle == arr = << >> /\ m_in = EmptyRec /\ idx_out = 0 /\ arr_before = << >> /\ interned = << >>
RunIdle == /\ exp_file = << >> /\ exps = << >> /\ soil_ids = << >> /\ cul_file = FALSE
           /\ pc = "idle" /\ ei = 0 /\ sj = 0
           /\ soil_profiles = << >> /\ soil_ic = EmptyRec
           /\ tabs = EmptyRec /\ rows = << >>
           /\ sol_profiles = << >> /\ sol_blocks = << >>
           /\ files = {} /\ warned = {} /\ printed = << >> /\ x_dates = << >>

ApplyForStr ==
    /\ call.fn = "for_str" /\ ret = Pending
    /\ ret' = for_str(call.vstr, call.nleading, call.vtype, call.vwidth,
                      call.jtfy, call.ndec, call.zero_pad)
    /\ UNCHANGED <<call, internVars, runVars>>

ApplyForField ==
    /\ call.fn = "for_field" /\ ret = Pending
    /\ ret' = for_field(call.dic, call.key, call.dft, call.nleading, call.vtype,
                        call.vwidth, call.jtfy, call.ndec)
    /\ UNCHANGED <<call, internVars, runVars>>

ApplyDate ==
    /\ call.fn = "translate_date_str" /\ ret = Pending
    /\ ret' = translate_date_str(call.date_str)
    /\ UNCHANGED <<call, internVars, runVars>>

ApplyTrno ==
    /\ call.fn = "trno" /\ ret = Pending
    /\ ret' = TrnoField(call.sq_data)
    /\ UNCHANGED <<call, internVars, runVars>>

InitForStr == call \in ForStrCalls \cup ForFieldCalls /\ ret = Pending /\ InternIdle /\ RunIdle
NextForStr == ApplyForStr \/ ApplyForField
SpecForStr == InitForStr /\ [][NextForStr]_vars

InitDate == call \in DateCalls /\ ret = Pending /\ InternIdle /\ RunIdle
NextDate == ApplyDate
SpecDate == InitDate /\ [][NextDate]_vars

InitTrno == call \in TrnoCalls /\ ret = Pending /\ InternIdle /\ RunIdle
NextTrno == ApplyTrno
SpecTrno == InitTrno /\ [][NextTrno]_vars

\* cultivar records and modifier blocks for __add_param_mods
ModBlockP1 == [offset_p1 |-> <<"1", "0">>, scale_p1 |-> <<"2">>, max_p1 |-> <<"5", "0">>,
               min_p1 |-> <<"2", "0", "0">>, set_p1 |-> <<"7">>]
ModBlocks ==
    {Update([seqid |-> sid], Update(Restrict(ModBlockP1, ks), p2)) :
        sid \in {One, Two}, ks \in SUBSET DOMAIN ModBlockP1,
        p2 \in {EmptyRec, [scale_p2 |-> <<"2">>], [offset_p2 |-> <<"x">>]}}
ModsCalls ==
    {[fn |-> "add_param_mods", arr |-> a, mod_arr |-> <<m>>] :
        a \in {<<[seqid |-> One, p1 |-> v, p2 |-> <<"3">>]>> \o rest :
                  v \in {<<"1", "0", "0">>, <<"2", ".", "5">>, <<"a", "b", "c">>},
                  rest \in {<< >>, <<[seqid |-> Two, p1 |-> <<"8">>, p2 |-> <<"3">>]>>}},
        m \in ModBlocks}

ApplyMods ==
    /\ call.fn = "add_param_mods" /\ ret = Pending
    /\ ret' = Ok(add_param_mods(call.arr, call.mod_arr))
    /\ UNCHANGED <<call, internVars, runVars>>

InitMods == call \in ModsCalls /\ ret = Pending /\ InternIdle /\ RunIdle
NextMods == ApplyMods
SpecMods == InitMods /\ [][NextMods]_vars

------------------------------------------------------------------------------
(* ptransfer, swc_adjustments and the layer loop of SOLFileOutput.toSOLFile *)

\* line 1567: sloc is raised to sloc_min and becomes a float
LayerOc(soilLayer, sloc_min) ==
    IF sloc_min /= Def99
    THEN Num(MaxOf(Double(Str(Get(soilLayer, "sloc", Def99))).val, Double(Str(sloc_min)).val))
    ELSE Str(Get(soilLayer, "sloc", Def99))

\* lines 1571-1572: slsnd, in eighths of a percent
LayerSand(slcly, slsil, slsnd_max) ==
    IF slsnd_max /= Def99
    THEN MinOf(MaxOf(800 - Double(Str(slcly)).val - Double(Str(slsil)).val, 0),
               Double(Str(slsnd_max)).val)
    ELSE MaxOf(800 - Double(Str(slcly)).val - Double(Str(slsil)).val, 0)

\* lines 1573-1577: clay and silt are recomputed, turned into text and handed to ptransfer
LayerTransfer(slsnd, slcly, sloc, slcf) ==
    ptransfer(Str(StrOfFloat(slcly)), Str(StrOfFloat(MaxOf(800 - slsnd - slcly, 0))),
              sloc, Str(slcf))

\* lines 1569-1584: the three water contents on the grid, and which branch gave them
LayerValues(soilLayer, sloc, use_ptransfer, delta_cly, slsnd_max) ==
    IF /\ use_ptransfer
       /\ Get(soilLayer, "slcl", Def99) /= Def99
       /\ Get(soilLayer, "slsi", Def99) /= Def99
       /\ sloc /= Str(Def99)
       /\ Get(soilLayer, "slcf", Def99) /= Def99
    THEN [pt |-> TRUE] @@
         LayerTransfer(LayerSand(soilLayer.slcl, soilLayer.slsi, slsnd_max),
                       MaxOf(Double(Str(soilLayer.slcl)).val + Double(Str(delta_cly)).val, 0),
                       sloc, soilLayer.slcf).val
    ELSE [pt    |-> FALSE,
          slll  |-> Frac(Double(Str(Get(soilLayer, "slll", Def99))).val),
          sldul |-> Frac(Double(Str(Get(soilLayer, "sdul", Def99))).val),
          slsat |-> Frac(Double(Str(Get(soilLayer, "ssat", Def99))).val)]

\* lines 1586-1588: the values before the adjustment, and the values written
LayerAdjust(v, delta_swc) ==
    [pt |-> v.pt, adj |-> delta_swc /= Def99, before |-> v,
     after |-> IF delta_swc /= Def99
               THEN swc_adjustments(v.sldul, v.slll, v.slsat,
                                    Frac(Double(Str(delta_swc)).val))
               ELSE [sldul |-> v.sldul, slll |-> v.slll, slsat |-> v.slsat]]

Layer(soilLayer, use_ptransfer, p) ==
    LayerAdjust(LayerValues(soilLayer, LayerOc(soilLayer, p.sloc_min), use_ptransfer,
                            p.delta_cly, p.slsnd_max),
                p.delta_swc)

\* DSSATXFileOutput.__init__, lines 254-257: one layer of soil_ic[soil_id_composite];
\* str() of the file's strings is the string itself
SoilIcLayer(depth, sloc, sldul) == [icbl |-> depth, icno3 |-> sloc, ich2o |-> sldul]

\* toXFile, lines 712-713: frac_full * ich2o in eighths, and the cap of line 713
Sh2o_uncapped(frac_full, ich2o) ==
    (Double(Str(frac_full)).val * Double(Str(ich2o)).val) \div 8
Sh2o(frac_full, ich2o) ==
    MinOf((Double(Str(frac_full)).val * Double(Str(ich2o)).val) \div 8, 6)

\* lines 714-718: the value of SH2O and its field in the row
IcRow(e) == [sh2o |-> e, text |-> for_str(Num(e), 1, "r", 5, "r", 3, FALSE).val]

\* lines 701-718: the rows below one initial-condition record
IcRows(sub_data_arr, frac_full) ==
    IF \E j \in 1..Len(sub_data_arr) :
           ~Double(Str(frac_full)).ok \/ ~Double(Str(Get(sub_data_arr[j], "ich2o", Def99))).ok
    THEN Raise("ValueError")
    ELSE Ok([j \in 1..Len(sub_data_arr) |->
                IcRow(Sh2o(frac_full, Get(sub_data_arr[j], "ich2o", Def99)))])
InitialConditionRows(sec_data, soilIc) ==
    IcRows(Get(soilIc, Get(sec_data, "soil_id_composite", Def99), << >>),
           Get(sec_data, "frac_full", <<"0", ".", "5">>))

\* the calls of the water specification
PtCalls ==
    {[fn |-> "ptransfer", slcly |-> c, slsil |-> s, sloc |-> o, slcf |-> <<"0">>] :
        c \in {<<"2", "0">>, <<"6", "0">>, <<"8", "0">>, <<"8", "5">>},
        s \in {<<"0">>, <<"5">>, <<"1", "0">>},
        o \in {<<"1">>, <<"5">>, <<"8">>, <<"1", "0">>}}

SwcCalls ==
    {[fn |-> "swc_adjustments", sldul |-> d, slll |-> l, slsat |-> t, swc_delta |-> w] :
        l \in {300, 400, 500, 1000, 2500},
        d \in {1500, 3000},
        t \in {3200, 4500},
        w \in {-3000, -200, 0, 200, 2500}}

LayerCalls ==
    {[fn |-> "layer", use_ptransfer |-> u,
      soilLayer |-> [slcl |-> c, slsi |-> <<"5">>, sloc |-> o, slcf |-> <<"0">>,
                     slll |-> <<"0", ".", "1", "2", "5">>, sdul |-> <<"0", ".", "2", "5">>,
                     ssat |-> <<"0", ".", "5">>],
      p |-> [delta_swc |-> w, delta_cly |-> y, slsnd_max |-> x, sloc_min |-> m]] :
        u \in BOOLEAN,
        c \in {<<"2", "0">>, <<"8", "0">>},
        o \in {<<"1">>, <<"8">>},
        w \in {Def99, <<"0", ".", "2", "5">>, <<"-", "0", ".", "2", "5">>},
        y \in {<<"0">>, <<"5">>},
        x \in {Def99, <<"1", "0">>},
        m \in {Def99, <<"5">>}}

Ich2oPool == {<<"0", ".", "2", "5">>, <<"0", ".", "5">>, <<"0", ".", "7", "5">>, <<"1", ".", "5">>}
IcCalls ==
    {[fn |-> "initial_conditions", sec_data |-> [soil_id_composite |-> SLId(k)] @@ f,
      soil_ic |-> (SLId(1) :> <<SoilIcLayer(<<"1", "0">>, <<"1">>, a),
                                SoilIcLayer(<<"3", "0">>, <<"1">>, b)>>)
                  @@ (SLId(2) :> <<SoilIcLayer(<<"1", "0">>, <<"8">>, b)>>)] :
        k \in 1..3,
        f \in {EmptyRec, [frac_full |-> <<"1">>], [frac_full |-> <<"2">>],
               [frac_full |-> <<"0", ".", "5">>]},
        a \in Ich2oPool, b \in Ich2oPool}

ApplyPtransfer ==
    /\ call.fn = "ptransfer" /\ ret = Pending
    /\ ret' = ptransfer(Str(call.slcly), Str(call.slsil), Str(call.sloc), Str(call.slcf))
    /\ UNCHANGED <<call, internVars, runVars>>

ApplySwc ==
    /\ call.fn = "swc_adjustments" /\ ret = Pending
    /\ ret' = Ok(swc_adjustments(call.sldul, call.slll, call.slsat, call.swc_delta))
    /\ UNCHANGED <<call, internVars, runVars>>

ApplyLayer ==
    /\ call.fn = "layer" /\ ret = Pending
    /\ ret' = Ok(Layer(call.soilLayer, call.use_ptransfer, call.p))
    /\ UNCHANGED <<call, internVars, runVars>>

ApplyIc ==
    /\ call.fn = "initial_conditions" /\ ret = Pending
    /\ ret' = InitialConditionRows(call.sec_data, call.soil_ic)
    /\ UNCHANGED <<call, internVars, runVars>>

InitWater ==
    /\ call \in PtCalls \cup SwcCalls \cup LayerCalls \cup IcCalls
    /\ ret = Pending /\ InternIdle /\ RunIdle
NextWater == ApplyPtransfer \/ ApplySwc \/ ApplyLayer \/ ApplyIc
SpecWater == InitWater /\ [][NextWater]_vars

-----------------------------------------------------------------------------
(* One section table under a run of __set_sec_data calls                   *)

\* a table holds dictionaries (cu, fl, sa, ic, mp, sm) or event lists (mi .. mh)
DictPool == {EmptyRec,
             [crid |-> "MZ"],
             [crid |-> "WH"],
             [crid |-> "MZ", cul_id |-> "CC0000"],
             [sadat |-> "95166", soilLayer |-> <<[sabl |-> "10"]>>],
             [sadat |-> "95166", soilLayer |-> <<[sabl |-> "20"]>>]}
ListPool == {EmptyRec,
             <<[event |-> "irrigation", date |-> "19950615"]>>,
             <<[event |-> "irrigation", date |-> "19950701"]>>,
             <<[event |-> "irrigation", date |-> "19950615"],
               [event |-> "irrigation", date |-> "19950701"]>>,
             <<[event |-> "irrigation", date |-> "19950701"],
               [event |-> "irrigation", date |-> "19950615"]>>}
InternPool == IF call.kind = "dict" THEN DictPool ELSE ListPool

Intern ==
    /\ call.fn = "set_sec_data"
    /\ Len(interned) < MaxInterns
    /\ \E m \in InternPool :
          LET r == set_sec_data(m, arr) IN
          /\ m_in' = m
          /\ arr_before' = arr
          /\ arr' = r.arr
          /\ idx_out' = r.idx
          /\ interned' = Append(interned, [m |-> m, idx |-> r.idx])
    /\ UNCHANGED <<fnVars, runVars>>

InitIntern == /\ call \in [fn : {"set_sec_data"}, kind : {"dict", "list"}]
              /\ ret = Pending
              /\ arr = << >> /\ m_in = EmptyRec /\ idx_out = 0 /\ arr_before = << >>
              /\ interned = << >>
              /\ RunIdle
NextIntern == Intern
SpecIntern == InitIntern /\ [][NextIntern]_vars

-----------------------------------------------------------------------------
(* DSSATXFileOutput.__create_SMMA_str                                      *)
(* The text is held as its lines; a line keeps the tag of its sub-block,   *)
(* whether it is the heading, and whether it is the hard-coded default.    *)

BeforeDot(str) == IF Find(str, ".") = 0 THEN str ELSE SubSeq(str, 1, Find(str, ".") - 1)
Format5s(str) == str \o Rep(" ", 5 - Len(str))                     \* '{:5s}'.format(str)

SmHead(tag)       == [tag |-> tag, head |-> TRUE]
SmData(tag, dflt) == [tag |-> tag, head |-> FALSE, dflt |-> dflt]

\* lines 1048-1051: the start date before it is translated
SmmaRawSdate(tr_data) ==
    IF Get(tr_data, "sdat", << >>) = << >>
    THEN Get(Get(tr_data, "planting", EmptyRec), "date", Def99)
    ELSE tr_data["sdat"]

\* lines 1063-1067: sdyer and sdday are written into the record of the control set
SmmaGeneralDated(sm_str, sdate) ==
    IF Strip(sdate) /= Def99 /\ Strip(sdate) /= << >>
    THEN Put(Put(sm_str, "sdyer", Take(sdate, 2)), "sdday", SubSeq(sdate, 3, 5))
    ELSE sm_str

\* lines 1068-1073: the two halves of SDATE
SmmaSdyer(sm_str, y2k) ==
    for_str(Str(BeforeDot(Get(sm_str, "sdyer", Def99))), 1, "c", IF y2k THEN 5 ELSE 2,
            "r", 0, ~y2k).val
SmmaSdday(sm_str) ==
    for_str(Str(BeforeDot(Get(sm_str, "sdday", Def99))), 0, "c", 3, "r", 0, TRUE).val

\* lines 1058-1085: GENERAL
SmmaGeneral(sm_str, sdate, y2k) ==
    IF sm_str /= EmptyRec
    THEN <<SmHead("GE"),
           SmData("GE", FALSE) @@ [sdate |-> SmmaSdyer(sm_str, y2k) \o SmmaSdday(sm_str)]>>
    ELSE <<SmHead("GE"), SmData("GE", TRUE) @@ [sdate |-> sdate]>>

\* OPTIONS, METHODS, OUTPUTS, IRRIGATION, NITROGEN, RESIDUES: a heading, then the
\* override or the default line
SmmaBlock(tr_data, key, tag) ==
    <<SmHead(tag), SmData(tag, Get(tr_data, key, EmptyRec) = EmptyRec)>>

\* lines 1125-1137: MANAGEMENT; the default line is assigned to sb, not appended
SmmaManagement(sb, tr_data) ==
    IF Get(tr_data, "management", EmptyRec) /= EmptyRec
    THEN sb \o <<SmHead("MA"), SmData("MA", FALSE)>>
    ELSE <<SmData("MA", TRUE)>>

\* lines 1160-1204: PLANTING; the heading belongs to the override
SmmaPlanting(tr_data) ==
    <<SmHead("AM")>> \o
    (IF Get(tr_data, "planting", EmptyRec) /= EmptyRec
     THEN <<SmHead("PL"), SmData("PL", FALSE)>> ELSE <<SmData("PL", TRUE)>>)

\* lines 1206-1220: ireff is the one real-valued field of the control set
SmmaIrrigation(tr_data) ==
    IF /\ Get(tr_data, "irrigation", EmptyRec) /= EmptyRec
       /\ ~Double(Str(Get(tr_data["irrigation"], "ireff", Def99))).ok
    THEN Raise("ValueError")
    ELSE Ok(SmmaBlock(tr_data, "irrigation", "IR"))

\* lines 1248-1284: HARVEST; without an override hlyer and hlday were never assigned
SmmaHarvest(tr_data) ==
    IF Get(tr_data, "harvests", EmptyRec) /= EmptyRec
    THEN Ok(<<SmHead("HA"), SmData("HA", FALSE)>>)
    ELSE Raise("UnboundLocalError")

\* the lines from GENERAL to RESIDUES
SmmaFront(tr_data, sdate, y2k) ==
    SmmaManagement(SmmaGeneral(SmmaGeneralDated(Get(tr_data, "general", EmptyRec), sdate),
                               sdate, y2k)
                     \o SmmaBlock(tr_data, "options", "OP")
                     \o SmmaBlock(tr_data, "methods", "ME"),
                   tr_data)
      \o SmmaBlock(tr_data, "outputs", "OU") \o SmmaPlanting(tr_data)

\* the record of the control set after the call
SmmaRecord(tr_data, sdate) ==
    IF Get(tr_data, "general", EmptyRec) /= EmptyRec
    THEN Put(tr_data, "general", SmmaGeneralDated(tr_data["general"], sdate))
    ELSE tr_data

SmmaText(tr_data, sdate, y2k, ir, ha) ==
    IF ~ir.ok THEN ir
    ELSE IF ~ha.ok THEN ha
    ELSE Ok([text |-> SmmaFront(tr_data, sdate, y2k) \o ir.val
                        \o SmmaBlock(tr_data, "nitrogen", "NI")
                        \o SmmaBlock(tr_data, "residues", "RE") \o ha.val,
             tr_data |-> SmmaRecord(tr_data, sdate)])

create_SMMA_str(smid, tr_data, y2k) ==
    IF ~translate_date_str(SmmaRawSdate(tr_data)).ok
    THEN translate_date_str(SmmaRawSdate(tr_data))
    ELSE SmmaText(tr_data, Format5s(translate_date_str(SmmaRawSdate(tr_data)).val), y2k,
                  SmmaIrrigation(tr_data), SmmaHarvest(tr_data))

\* a control set that overrides every sub-block, and the calls drawn from it
FullControl ==
    [general |-> [nyers |-> <<"1">>], options |-> [water |-> <<"Y">>],
     methods |-> [wther |-> <<"M">>], management |-> [plant |-> <<"R">>],
     outputs |-> [fname |-> <<"N">>], planting |-> [pfyer |-> <<"9", "5">>],
     irrigation |-> [ireff |-> <<"1", ".", "0">>], nitrogen |-> [nmdep |-> <<"3", "0">>],
     residues |-> [ripcn |-> <<"1", "0", "0">>], harvests |-> [hlyer |-> <<"9", "5">>]]
SmmaCalls ==
    {[fn |-> "create_SMMA_str", smid |-> 1, tr_data |-> Update(Restrict(FullControl, ks), d),
      y2k |-> y] :
        ks \in SUBSET DOMAIN FullControl,
        d \in {EmptyRec, [sdat |-> <<"1", "9", "9", "5", "0", "6", "1", "5">>]},
        y \in BOOLEAN}

ApplySmma ==
    /\ call.fn = "create_SMMA_str" /\ ret = Pending
    /\ ret' = create_SMMA_str(call.smid, call.tr_data, call.y2k)
    /\ UNCHANGED <<call, internVars, runVars>>

InitSmma == call \in SmmaCalls /\ ret = Pending /\ InternIdle /\ RunIdle
NextSmma == ApplySmma
SpecSmma == InitSmma /\ [][NextSmma]_vars

-----------------------------------------------------------------------------
(* Jsons2DssatLong.run: DSSATXFileOutput.__init__, toXFile, SOLFileOutput  *)

FailWarned_escapes(w) ==
    /\ pc' = "failed"
    /\ ret' = Raise("Exception")
    /\ warned' = warned \cup w
    /\ UNCHANGED <<exp_file, exps, soil_ids, cul_file, ei, sj, soil_profiles, soil_ic,
                   tabs, rows, sol_profiles, sol_blocks, files, printed, x_dates>>

\* lines 1706-1708: the except clause of run
FailWarned(w) ==
    /\ pc' = "failed"
    /\ printed' = Append(printed, [latidx |-> call.latidx, lonidx |-> call.lonidx])
    /\ ret' = Ok(FALSE)
    /\ warned' = warned \cup w
    /\ UNCHANGED <<exp_file, exps, soil_ids, cul_file, ei, sj, soil_profiles, soil_ic,
                   tabs, rows, sol_profiles, sol_blocks, files, x_dates>>
Fail == FailWarned({})

\* lines 169-259: the experiment list is loaded and one experiment is looked at
XInitStep ==
    /\ pc = "xinit"
    /\ IF Len(exps) = 0 THEN Fail
       ELSE \E r \in {XInitBody(exps[ei], soil_profiles, soil_ic, soil_ids)} :
            IF ~r.ok THEN Fail
            ELSE /\ soil_profiles' = r.val.soil_profiles
                 /\ soil_ic' = r.val.soil_ic
                 /\ IF ei < Len(exps) THEN ei' = ei + 1 /\ pc' = pc
                                      ELSE ei' = 1 /\ pc' = "xhead"
                 /\ UNCHANGED <<exp_file, exps, soil_ids, cul_file, sj, tabs, rows,
                                sol_profiles, sol_blocks,
                                ret, files, warned, printed, x_dates>>
    /\ UNCHANGED <<call, internVars>>

\* lines 266-337: the heading of the experiment file and the empty tables
XHeader ==
    /\ pc = "xhead"
    /\ IF ~Has(exps[1], "exname_o") THEN Fail
       ELSE /\ tabs' = EmptyTables
            /\ rows' = << >>
            /\ pc' = "xexp" /\ ei' = 1 /\ sj' = 0
            /\ UNCHANGED <<exp_file, exps, soil_ids, cul_file, soil_profiles, soil_ic,
                           sol_profiles, sol_blocks,
                           ret, files, warned, printed, x_dates>>
    /\ UNCHANGED <<call, internVars>>

\* where the treatment loop goes after sequence j of experiment i
AfterSeq(i, j, e) ==
    IF j < Len(GetList(e[i], "dssat_sequence", "data")) THEN [pc |-> "xseq", ei |-> i, sj |-> j + 1]
    ELSE IF i < Len(e) THEN [pc |-> "xexp", ei |-> i + 1, sj |-> 0]
    ELSE [pc |-> "xrender", ei |-> i, sj |-> 0]

\* lines 339-357: an experiment enters the treatment loop
BeginExp ==
    /\ pc = "xexp"
    /\ \E r \in {BeginExpBody(exps[ei])} :
       IF ~r.ok THEN Fail
       ELSE \E n \in {AfterSeq(ei, 0, [exps EXCEPT ![ei] = r.val])} :
                /\ exps' = [exps EXCEPT ![ei] = r.val]
                /\ pc' = n.pc /\ ei' = n.ei /\ sj' = n.sj
                /\ UNCHANGED <<exp_file, soil_ids, cul_file, soil_profiles, soil_ic,
                               tabs, rows, sol_profiles, sol_blocks,
                               ret, files, warned, printed, x_dates>>
    /\ UNCHANGED <<call, internVars>>

\* lines 359-565: one sequence is assembled, interned and written as a row
SeqStep ==
    /\ pc = "xseq"
    /\ \E r \in {SeqBody(exps[ei], sj, tabs, cul_file)} :
       IF ~r.ok THEN Fail
       ELSE \E n \in {AfterSeq(ei, sj, [exps EXCEPT ![ei] = r.val.exp])} :
                /\ exps' = [exps EXCEPT ![ei] = r.val.exp]
                /\ tabs' = r.val.tabs
                /\ rows' = Append(rows, [exp |-> ei, seq |-> sj] @@ r.val.row)
                /\ pc' = n.pc /\ ei' = n.ei /\ sj' = n.sj
                /\ UNCHANGED <<exp_file, soil_ids, cul_file, soil_profiles, soil_ic,
                               sol_profiles, sol_blocks,
                               ret, files, warned, printed, x_dates>>
    /\ UNCHANGED <<call, internVars>>

\* the crops of cul_params and eco_params (lines 136-165)
CropIds == {<<"M", "Z">>, <<"S", "B">>, <<"W", "H">>, <<"R", "I">>, <<"S", "G">>,
            <<"M", "L">>, <<"C", "O">>, <<"B", "A">>, <<"C", "N">>}

\* __write_cul_file: no text for an empty table, else a heading and one line a cultivar
write_cul_file(cu_arr) ==
    IF cu_arr = << >> THEN Ok(<< >>)
    ELSE IF ~Has(cu_arr[1], "crid") \/ cu_arr[1].crid \notin CropIds THEN Raise("KeyError")
    ELSE IF \E i \in 1..Len(cu_arr) : ~Has(cu_arr[i], "eco") THEN Raise("KeyError")
    ELSE Ok(<<[heading |-> cu_arr[1].crid]>> \o
            [i \in 1..Len(cu_arr) |->
                [culid |-> <<"C", "C">> \o Zfill(DigitsOf(i - 1), 4), eco |-> cu_arr[i].eco]])

\* __write_eco_file
write_eco_file(eco_arr) ==
    IF eco_arr = << >> THEN Ok(<< >>)
    ELSE IF ~Has(eco_arr[1], "crid") \/ eco_arr[1].crid \notin CropIds THEN Raise("KeyError")
    ELSE Ok(<<[heading |-> eco_arr[1].crid]>> \o
            [i \in 1..Len(eco_arr) |-> [eco |-> Zfill(DigitsOf(i), 6)]])

\* lines 966-969: what toXFile returns beside x_str
CulEcoText(c, e) == IF ~c.ok THEN c ELSE IF ~e.ok THEN e ELSE Ok([c_str |-> c.val, e_str |-> e.val])

\* lines 597-603 and 730-732: three of the warnings of the rendering
RenderWarnings(tb) ==
    {w \in {"Field WST_ID is missing"} :
        \E i \in 1..Len(tb.fl) : Get(tb.fl[i], "wst_id", << >>) = << >>}
    \cup {w \in {"Field SOIL_ID is missing"} :
        \E i \in 1..Len(tb.fl) : Get(tb.fl[i], "soil_id_composite", Def99) = << >>}
    \cup {w \in {"Planting PDATE is missing"} :
        \E i \in 1..Len(tb.mp) : Get(tb.mp[i], "date", << >>) = << >>}

\* lines 1678-1694: the experiment file always, the other two when their text is not empty
FilesOfX(t) ==
    {"X"} \cup (IF t.c_str /= << >> THEN {"CUL"} ELSE {})
          \cup (IF t.e_str /= << >> THEN {"ECO"} ELSE {})

RECURSIVE Flatten(_)
Flatten(ss) == IF ss = << >> THEN << >> ELSE Head(ss) \o Flatten(Tail(ss))

\* one date of the experiment file: the section it is written in and its translation
DateOf(sec, rec, key, y2k) ==
    [sec |-> sec,
     res |-> IF y2k THEN translate_date_str_y2k(Get(rec, key, Def99))
                    ELSE translate_date_str(Get(rec, key, Def99))]

\* lines 808-819, 834-838, 857-861, 879-883, 898-902, 939-943: the dates of the event lists
EventDates(sec, sec_arr, y2k) ==
    Flatten([i \in 1..Len(sec_arr) |->
                [j \in 1..Len(sec_arr[i]) |-> DateOf(sec, sec_arr[i][j], "date", y2k)]])

\* lines 666-667, 684, 741-746 and the event lists: only three sections look at y2k
RenderedDates(tb, y2k) ==
    [i \in 1..Len(tb.ic) |-> DateOf("ic", tb.ic[i], "icdat", y2k)]
      \o Flatten([i \in 1..Len(tb.mp) |-> <<DateOf("mp", tb.mp[i], "date", y2k),
                                            DateOf("mp", tb.mp[i], "pldae", y2k)>>])
      \o EventDates("mi", tb.mi, y2k) \o EventDates("mf", tb.mf, FALSE)
      \o EventDates("mr", tb.mr, FALSE) \o EventDates("mc", tb.mc, FALSE)
      \o EventDates("mt", tb.mt, FALSE) \o EventDates("mh", tb.mh, FALSE)

\* lines 737-740: the planting depth is rewritten in the record, from mm to cm
PlantingDepth(sec_data) ==
    IF Get(sec_data, "pldp", << >>) = << >> THEN Ok(sec_data)
    ELSE IF ~Double(Str(sec_data["pldp"])).ok THEN Double(Str(sec_data["pldp"]))
    ELSE Ok(Put(sec_data, "pldp", StrOfFloat(Double(Str(sec_data["pldp"])).val \div 10)))

\* lines 914-916: every entry of an environment modification is read through its 'data'
EnvModsReadable(me_arr) ==
    \A i \in 1..Len(me_arr) : \A j \in 1..Len(me_arr[i]) : Has(me_arr[i][j], "data")

\* lines 954-964: one call of __create_SMMA_str per control set, one on {} when there is none
RenderedControls(sm_arr, y2k) ==
    IF sm_arr = << >> THEN <<create_SMMA_str(1, EmptyRec, y2k)>>
    ELSE [i \in 1..Len(sm_arr) |-> create_SMMA_str(i, sm_arr[i], y2k)]

\* the first exception of a list of outcomes, "" when there is none
FirstRaise(outs) ==
    IF \A i \in 1..Len(outs) : outs[i].ok THEN ""
    ELSE outs[CHOOSE i \in 1..Len(outs) :
                  ~outs[i].ok /\ \A h \in 1..(i - 1) : outs[h].ok].err

\* the start dates the GENERAL lines carry
ControlDates(sm) ==
    Flatten([i \in 1..Len(sm) |->
                [l \in 1..(IF Len(sm[i].val.text) > 1 /\ sm[i].val.text[2].tag = "GE"
                           THEN 1 ELSE 0) |->
                    [sec |-> "sm", res |-> Ok(Strip(sm[i].val.text[2].sdate))]]])

\* lines 567-969: what toXFile raises, or the tables it leaves and the dates it has written
RenderedX(tb, dates, mp, sm, ce) ==
    IF FirstRaise([i \in 1..Len(dates) |-> dates[i].res]) /= ""
    THEN Raise(FirstRaise([i \in 1..Len(dates) |-> dates[i].res]))
    ELSE IF FirstRaise(mp) /= "" THEN Raise(FirstRaise(mp))
    ELSE IF ~EnvModsReadable(tb.me) THEN Raise("KeyError")
    ELSE IF FirstRaise(sm) /= "" THEN Raise(FirstRaise(sm))
    ELSE IF ~ce.ok THEN ce
    ELSE Ok([tabs  |-> [t \in Tables |->
                           IF t = "mp" THEN [i \in 1..Len(mp) |-> mp[i].val]
                           ELSE IF t = "sm" THEN [i \in 1..Len(tb.sm) |-> sm[i].val.tr_data]
                           ELSE tb[t]],
             dates |-> [i \in 1..Len(dates) |-> [sec |-> dates[i].sec, date |-> dates[i].res.val]]
                         \o ControlDates(sm),
             files |-> FilesOfX(ce.val)])

toXFile(tb, y2k) ==
    RenderedX(tb, RenderedDates(tb, y2k),
              [i \in 1..Len(tb.mp) |-> PlantingDepth(tb.mp[i])],
              RenderedControls(tb.sm, y2k),
              CulEcoText(write_cul_file(tb.cult_param), write_eco_file(tb.eco_param)))

\* lines 567-969 and 1678-1694: the sections are rendered and the files written
FinishX ==
    /\ pc = "xrender"
    /\ \E r \in {toXFile(tabs, call.y2k)} :
       IF ~r.ok THEN FailWarned(RenderWarnings(tabs))
       ELSE /\ warned' = warned \cup RenderWarnings(tabs)
            /\ files' = files \cup r.val.files
            /\ tabs' = r.val.tabs
            /\ x_dates' = r.val.dates
            /\ pc' = "solinit" /\ ei' = 1 /\ sj' = 0
            /\ UNCHANGED <<exp_file, exps, soil_ids, cul_file, soil_profiles, soil_ic,
                           rows, sol_profiles, sol_blocks, ret, printed>>
    /\ UNCHANGED <<call, internVars>>

\* lines 1449-1495: SOLFileOutput reads exp.json again
SolInitStep ==
    /\ pc = "solinit"
    /\ IF Len(exp_file) = 0 THEN Fail
       ELSE \E r \in {SolInitBody(exp_file[ei], sol_profiles, soil_ids)} :
            IF ~r.ok THEN Fail
            ELSE /\ sol_profiles' = r.val
                 /\ IF ei < Len(exp_file) THEN ei' = ei + 1 /\ pc' = pc
                                          ELSE ei' = 1 /\ pc' = "solrender"
                 /\ UNCHANGED <<exp_file, exps, soil_ids, cul_file, sj, soil_profiles,
                                soil_ic, tabs, rows, sol_blocks,
                                ret, files, warned, printed, x_dates>>
    /\ UNCHANGED <<call, internVars>>

\* lines 1505-1518 and 1696-1704: one block of the soil file; after the last the file is written
SolBlockStep ==
    /\ pc = "solrender"
    /\ sol_blocks' = Append(sol_blocks,
                            [soil_id |-> for_str(Str(SLId(ei)), 0, "c", 10, "l", 0, FALSE).val,
                             soil_profile |-> sol_profiles[ei]])
    /\ IF ei < Len(sol_profiles)
       THEN ei' = ei + 1 /\ pc' = pc /\ UNCHANGED <<ret, files>>
       ELSE ei' = ei /\ pc' = "done" /\ files' = files \cup {"SOL"} /\ ret' = Ok(TRUE)
    /\ UNCHANGED <<exp_file, exps, soil_ids, cul_file, sj, soil_profiles, soil_ic,
                   tabs, rows, sol_profiles, warned, printed, x_dates>>
    /\ UNCHANGED <<call, internVars>>

-----------------------------------------------------------------------------
(* The experiments drawn                                                   *)

ExName == <<"E">>
Seq1 == [seqid |-> One, sm |-> One, em |-> One, trno |-> One]
Seq2 == [seqid |-> Two, sm |-> Two, em |-> Two, trno |-> <<"1", "0", "0", "0">>]
Plant1 == [seqid |-> One, event |-> Planting, date |-> Date1, cul_name |-> <<"c">>,
           cul_id |-> <<"I", "B">>, crid |-> Maize, pldp |-> <<"5", "0">>]
PlantBare == [seqid |-> Two, event |-> Planting, date |-> Date1]
Irr1  == [seqid |-> One, event |-> Irrigation, date |-> Date1]
Irr1b == [seqid |-> One, event |-> Irrigation, date |-> Date2]
Irr2  == [seqid |-> Two, event |-> Irrigation, date |-> Date1]
Fert1 == [seqid |-> One, event |-> Fertilizer, date |-> Date1]
Org1  == [seqid |-> One, event |-> OrganicM, date |-> Date1]
Chem2 == [seqid |-> Two, event |-> Chemical, date |-> Date1]
Till2 == [seqid |-> Two, event |-> Tillage, date |-> Date1]
Harv1 == [seqid |-> One, event |-> Harvest, date |-> Date2]
Harv2 == [seqid |-> Two, event |-> Harvest, date |-> Blank]
Sm1 == [sm |-> One, general |-> [nyers |-> One], harvests |-> [hlyer |-> <<"9", "5">>]]
Sm2 == [sm |-> Two, harvests |-> [hlyer |-> <<"9", "5">>]]
Me1 == [em |-> One, data |-> [eday |-> <<"A">>]]
MeBare == [em |-> Two, ecdat |-> Date1]
SoilDict == [sltx |-> <<"L">>, sadat |-> Date1,
             soilLayer |-> <<[sllb |-> <<"1", "0">>, slsc |-> Two]>>]
Cult1 == [seqid |-> One, p1 |-> <<"1", "0", "0">>]
CultMod1 == [seqid |-> One, offset_p1 |-> <<"1", "0">>, scale_p1 |-> Two]
Eco1 == [seqid |-> One, tbase |-> <<"8">>]

TopA     == [exname_o |-> ExName, soil_id |-> SoilA, wst_id |-> Wst1]
TopB     == [exname_o |-> ExName, soil_id |-> SoilB, wst_id |-> Wst1, sdat |-> Date1,
             initial_conditions |-> [icdat |-> Date1]]
TopNoWst == [exname_o |-> ExName, soil_id |-> SoilA]

\* what goes with the top-level fields: sequences, events, control blocks, soil, cultivars
Uncontrolled == [dssat_sequence |-> [data |-> <<Seq1>>], soil |-> [k |-> "null"]]
Plain == [dssat_sequence |-> [data |-> <<Seq1>>], soil |-> [k |-> "null"],
          dssat_simulation_control |-> [data |-> <<Sm1>>]]
Managed == [dssat_sequence |-> [data |-> <<Seq1, Seq2>>],
            management |-> [events |-> <<Plant1, Irr1, Irr2, Fert1, Harv1, Irr1b, Harv2>>],
            dssat_simulation_control |-> [data |-> <<Sm1, Sm2>>],
            dssat_environment_modification |-> [data |-> <<Me1>>],
            soil |-> [k |-> "dict", d |-> SoilDict],
            cultivar |-> <<Cult1>>, cultivar_mods |-> <<CultMod1>>, ecotype |-> <<Eco1>>]
Rooted == [dssat_sequence |-> [data |-> <<Seq2, Seq1>>],
           management |-> [events |-> <<Irr1, Org1, Chem2, Till2, Plant1>>],
           dssat_root |-> <<[soil_id |-> SoilA, wst_id |-> Wst1, slpf |-> One]>>,
           dssat_environment_modification |-> [data |-> <<MeBare>>],
           soil |-> [k |-> "list", l |-> <<SoilDict, EmptyRec>>],
           cultivar |-> <<Cult1>>]
Unmodified == [dssat_sequence |-> [data |-> <<Seq1>>],
               management |-> [events |-> <<Plant1>>],
               dssat_simulation_control |-> [data |-> <<Sm1>>],
               soil |-> [k |-> "null"], cultivar |-> <<Cult1>>, ecotype |-> <<Eco1>>]
Broken == [dssat_sequence |-> [data |-> <<Seq2>>],
           management |-> [events |-> <<PlantBare>>], soil |-> [k |-> "null"]]
NoSoilKey == [dssat_sequence |-> [data |-> <<Seq1>>]]
NoSeqs == [soil |-> [k |-> "null"]]

ExpPool == {Update(top, rest) : top \in {TopA, TopB}, rest \in {Plain, Managed, Rooted}}
              \cup {Update(TopNoWst, Plain), Update(TopA, Broken), Update(TopA, NoSoilKey),
                    Update(TopB, NoSeqs), Pop(Update(TopA, Plain), "exname_o"),
                    Update(TopA, Uncontrolled), Update(TopA, Unmodified)}

\* experiments that differ in their soil parameters only
SoilTops ==
    {Update([exname_o |-> ExName, soil_id |-> sid, wst_id |-> Wst1], mod) :
        sid \in {SoilA, SoilB},
        mod \in {EmptyRec, [delta_cly |-> Zero], [delta_cly |-> One], [slpf |-> Def99],
                 [slpf |-> One]}}
    \cup {Update([exname_o |-> ExName, soil_id |-> SoilALong, wst_id |-> Wst1], mod) :
            mod \in {EmptyRec, [slhw_min |-> One]}}
\* a planting event that has no date
Undated == [dssat_sequence |-> [data |-> <<Seq1>>],
            management |-> [events |-> <<Pop(Plant1, "date")>>], soil |-> [k |-> "null"],
            dssat_simulation_control |-> [data |-> <<Sm1>>]]
SoilExpPool == {Update(top, Plain) : top \in SoilTops}
                  \cup {Update(TopB, NoSeqs), Update(TopA, NoSoilKey),
                        Pop(Update(TopA, Plain), "exname_o"),
                        Pop(Update(TopA, Plain), "soil_id"),
                        Update(TopNoWst, Plain), Update(TopA, Undated)}

SoilSources == {<<SoilA, SoilB>>, <<SoilA>>, <<SoilDft, SoilB, SoilA>>}

InitRun(pool, sources, targets, y2ks) ==
    /\ exp_file \in UNION {[1..n -> pool] : n \in 0..MaxExps}
    /\ exps = exp_file
    /\ soil_ids \in sources
    /\ cul_file \in targets
    /\ pc = "xinit" /\ ei = 1 /\ sj = 0
    /\ soil_profiles = << >> /\ soil_ic = EmptyRec
    /\ tabs = EmptyTables /\ rows = << >>
    /\ sol_profiles = << >> /\ sol_blocks = << >>
    /\ call \in {[fn |-> "run", latidx |-> a, lonidx |-> 3, y2k |-> y] :
                    a \in {1, 2}, y \in y2ks}
    /\ ret = Pending
    /\ files = {} /\ warned = {} /\ printed = << >> /\ x_dates = << >>
    /\ arr = << >> /\ m_in = EmptyRec /\ idx_out = 0 /\ arr_before = << >> /\ interned = << >>

Init == InitRun(ExpPool, {<<SoilA, SoilB>>, <<SoilA>>}, BOOLEAN, BOOLEAN)
Next == XInitStep \/ XHeader \/ BeginExp \/ SeqStep \/ FinishX \/ SolInitStep \/ SolBlockStep
Spec == Init /\ [][Next]_vars

InitSoil == InitRun(SoilExpPool, SoilSources, {FALSE}, {TRUE})
SpecSoil == InitSoil /\ [][Next]_vars

-----------------------------------------------------------------------------
(* Claims about the pure functions                                         *)

\* the value for_str or for_field formats in the current call
FmtArg == IF call.fn = "for_field"
          THEN Str(IF Has(call.dic, call.key) THEN call.dic[call.key] ELSE call.dft)
          ELSE call.vstr
FmtInContract == /\ call.fn \in {"for_str", "for_field"}
                 /\ call.vtype \in {"c", "r"}
                 /\ call.jtfy \in {"r", "l"}
                 /\ call.vtype = "c" => FmtArg.t = "str"
                 /\ call.vtype = "r" => Double(FmtArg).ok

\* C9: for_str (and for_field through it) returns exactly vwidth + nleading
\* characters for text and real values shorter than, as long as and longer
\* than the column, for both justifications and both zero_pad settings.
C9_ExactWidth ==
    (FmtInContract /\ ret /= Pending) =>
        ret.ok /\ Len(ret.val) = call.vwidth + call.nleading

\* a real value whose formatted text overflows the column has been cut to it
C9_Witness ==
    /\ call.fn = "for_str" /\ ret /= Pending /\ FmtInContract
    /\ call.vtype = "r" /\ call.jtfy = "l" /\ call.zero_pad
    /\ for_str_warns(call.vstr, call.vtype, call.vwidth, call.ndec)
    /\ ret.ok /\ Len(ret.val) = call.vwidth + call.nleading

\* C10: every valid date yyyymmdd is encoded as (year mod 100) in two digits
\* followed by the day of the year of that date in its own year.
C10_LegacyDate ==
    (call.fn = "translate_date_str" /\ ret /= Pending
        /\ Len(call.date_str) = 8 /\ ValidDate(call.y, call.mo, call.d)) =>
        /\ ret.ok
        /\ ret.val = Zfill(DigitsOf(call.y % 100), 2)
                        \o Zfill(DigitsOf(DayOfYear(call.y, call.mo, call.d)), 3)

\* C8: the number written is in 1..999 and differs from the raw number by a
\* multiple of 999; the N column holds it left-justified in 7 characters.
C8_TrnoNormalized ==
    (call.fn = "trno" /\ ret /= Pending) =>
        /\ ret.ok
        /\ LET out == NatOf(ret.val.trno.s)
           IN  /\ out \in 1..999
               /\ (call.n - out) % 999 = 0
               /\ call.n <= 999 => out = call.n
               /\ ret.val.text = Ljust(DigitsOf(out), 7)

\* raw number 1000 has been written as 1
C8_Witness ==
    /\ call.fn = "trno" /\ ret /= Pending /\ ret.ok
    /\ call.n = 1000 /\ ret.val.trno.s = <<"1">>

-----------------------------------------------------------------------------
(* Claims about __set_sec_data                                             *)

InternCalls == 1..Len(interned)
NonEmptyInterned == {interned[k].m : k \in InternCalls} \ {EmptyRec}

\* C2: two interns of deeply equal non-empty records return the same index;
\* the table grows by exactly one when the record occurs for the first time
\* and not at all when an equal record has been interned before.
C2_InternTwice ==
    /\ \A a, b \in InternCalls :
          (interned[a].m = interned[b].m /\ interned[a].m /= EmptyRec)
              => interned[a].idx = interned[b].idx
    /\ (interned /= << >> /\ m_in /= EmptyRec) =>
          LET seen == \E k \in 1..(Len(interned) - 1) : interned[k].m = m_in
          IN  /\ seen  => Len(arr) = Len(arr_before)
              /\ ~seen => Len(arr) = Len(arr_before) + 1
              /\ idx_out \in 1..Len(arr) /\ arr[idx_out] = m_in

\* the last call interned a record equal to an earlier one, other records in between
C2_Witness ==
    /\ Len(interned) >= 3 /\ m_in /= EmptyRec
    /\ interned[1].m = m_in
    /\ interned[2].m \notin {m_in, EmptyRec}
    /\ idx_out = 1 /\ Len(arr) = Len(arr_before) /\ Len(arr) = 2

\* C3: the table never holds two deeply equal entries, and its length is the
\* number of distinct non-empty records interned so far.
C3_TableUnique ==
    /\ \A a, b \in 1..Len(arr) : arr[a] = arr[b] => a = b
    /\ Len(arr) = Cardinality(NonEmptyInterned)

\* four calls, two distinct non-empty records among them
C3_Witness ==
    /\ Len(interned) = MaxInterns
    /\ Cardinality(NonEmptyInterned) = 2 /\ Len(arr) = 2

\* C4: interning {} or [] returns 0 and leaves the table as it was.
C4_EmptyIsZero ==
    (interned /= << >> /\ m_in = EmptyRec) => (idx_out = 0 /\ arr = arr_before)

\* an empty record interned into a table that already holds entries
C4_Witness ==
    /\ interned /= << >> /\ m_in = EmptyRec
    /\ Len(arr_before) >= 2 /\ idx_out = 0 /\ arr = arr_before

-----------------------------------------------------------------------------
(* Claims about the treatment rows                                         *)

\* the treatment loop is running or has just ended; nothing is rendered yet
Assembling == pc \in {"xexp", "xseq", "xrender"}
AssemblyEnded == pc = "xrender"
RowIds == 1..Len(rows)

IndexNamesRecord(r, c) ==
    /\ rows[r].num[c] \in 1..Len(tabs[c])
    /\ tabs[c][rows[r].num[c]] = rows[r].rec[c]

\* C1 as stated: every non-zero index of every row, SM included, is a position
\* of its table and the entry there equals the record assembled for the row.
C1_AsStated ==
    AssemblyEnded =>
        \A r \in RowIds : \A c \in Sections :
            rows[r].num[c] /= 0 => IndexNamesRecord(r, c)

\* C1 amended: the same for the twelve columns other than SM, and for SM when
\* the simulation-control record of the sequence is not empty; with an empty
\* simulation-control record the row says SM = 1 whatever the table holds.
C1_IndexNamesRecord ==
    Assembling =>
        \A r \in RowIds : \A c \in Sections :
            /\ (rows[r].num[c] /= 0 /\ (c /= "sm" \/ rows[r].rec[c] /= EmptyRec))
                  => IndexNamesRecord(r, c)
            /\ (c = "sm" /\ rows[r].rec[c] = EmptyRec) => rows[r].num[c] = 1

\* two rows of different experiments share the second entry of the irrigation table
C1_Witness ==
    /\ AssemblyEnded
    /\ \E a, b \in RowIds :
          /\ rows[a].exp /= rows[b].exp
          /\ rows[a].num["mi"] = 2 /\ rows[b].num["mi"] = 2
          /\ rows[a].rec["sm"] /= EmptyRec /\ rows[a].num["sm"] >= 1

\* C5 as stated: in every column, SM included, the index is 0 exactly when
\* the record assembled for the sequence is empty.
C5_AsStated ==
    Assembling =>
        \A r \in RowIds : \A c \in Sections :
            rows[r].num[c] = 0 <=> rows[r].rec[c] = EmptyRec

\* C5 amended: that holds in the twelve columns other than SM; the SM index
\* is never 0: it is the table position of a non-empty simulation-control
\* record and 1 when the sequence has none.
C5_ZeroIffAbsent ==
    Assembling =>
        \A r \in RowIds :
            /\ \A c \in Sections \ {"sm"} :
                  rows[r].num[c] = 0 <=> rows[r].rec[c] = EmptyRec
            /\ rows[r].num["sm"] >= 1
            /\ rows[r].rec["sm"] = EmptyRec => rows[r].num["sm"] = 1

\* a row without simulation control, without cultivar and with a chemical application
C5_Witness ==
    /\ AssemblyEnded
    /\ \E r \in RowIds :
          /\ rows[r].rec["sm"] = EmptyRec /\ rows[r].num["sm"] = 1
          /\ rows[r].rec["cu"] = EmptyRec /\ rows[r].num["cu"] = 0
          /\ rows[r].rec["mc"] /= EmptyRec /\ rows[r].num["mc"] >= 1

-----------------------------------------------------------------------------
(* Claims about the composite soil ids                                     *)

ExpIds == 1..Len(exp_file)
SoilTuple(i) == SoilProfileOf(exp_file[i])
\* the experiments __init__ has looked at; a failed run stopped somewhere
XInitSeen == IF pc = "xinit" THEN 1..(ei - 1) ELSE ExpIds
SolSeen == IF pc = "solinit" THEN 1..(ei - 1)
           ELSE IF pc \in {"solrender", "done"} THEN ExpIds ELSE {}

\* the ids under which a soil tuple is known to the three passes
IcIdsOf(tuple) == {id \in DOMAIN soil_ic : soil_ic[id].soil_profile = tuple}
FieldIdsOf(i) == {rows[r].rec["fl"]["soil_id_composite"] : r \in {q \in RowIds : rows[q].exp = i}}
BlockIdsOf(tuple) == {sol_blocks[k].soil_id : k \in {b \in 1..Len(sol_blocks) :
                          Pop(sol_blocks[b].soil_profile, "soil_idx") = tuple}}

\* C6: two experiments with the same soil tuple (defaults filled in) have the
\* same composite soil id in soil_ic, in their field records and in the soil file.
C6_CompositeIdPurity ==
    \A a, b \in ExpIds : SoilTuple(a) = SoilTuple(b) =>
        /\ ({a, b} \subseteq XInitSeen /\ pc /= "failed") =>
              Cardinality(IcIdsOf(SoilTuple(a))) = 1
        /\ Assembling => Cardinality(FieldIdsOf(a) \cup FieldIdsOf(b)) <= 1
        /\ pc = "done" => Cardinality(BlockIdsOf(SoilTuple(a))) = 1

\* 'SL0000000k' for k below ten
ExpectedSL(k) == <<"S", "L", "0", "0", "0", "0", "0", "0", "0", DigitChars[k + 1]>>
FirstOcc(i) == CHOOSE h \in 1..i : SoilTuple(h) = SoilTuple(i)
                                    /\ \A g \in 1..(h - 1) : SoilTuple(g) /= SoilTuple(i)
RankOf(i) == Cardinality({SoilTuple(h) : h \in 1..FirstOcc(i)})

IcNumbered(seen) ==
    /\ \A i \in seen :
          /\ ExpectedSL(RankOf(i)) \in DOMAIN soil_ic
          /\ soil_ic[ExpectedSL(RankOf(i))].soil_profile = SoilTuple(i)
    /\ DOMAIN soil_ic = {ExpectedSL(RankOf(i)) : i \in seen}

\* C7: in DSSATXFileOutput.__init__ and in the soil file the k-th distinct
\* soil tuple, in experiment order, has the id SL0000000k, and a repeated
\* tuple keeps the id of its first occurrence without using up a number.
C7_FirstOccurrenceIds ==
    /\ IF pc = "failed" THEN \E n \in 0..Len(exp_file) : IcNumbered(1..n)
                        ELSE IcNumbered(XInitSeen)
    /\ \A i \in SolSeen :
          /\ RankOf(i) <= Len(sol_profiles)
          /\ Pop(sol_profiles[RankOf(i)], "soil_idx") = SoilTuple(i)
    /\ Len(sol_profiles) = Cardinality({RankOf(i) : i \in SolSeen})
    /\ \A k \in 1..Len(sol_blocks) :
          /\ sol_blocks[k].soil_id = ExpectedSL(k)
          /\ sol_blocks[k].soil_profile = sol_profiles[k]
    /\ pc = "done" => Len(sol_blocks) = Len(sol_profiles)

\* the last experiment repeats the soil tuple of the first in another spelling
C7_Witness ==
    /\ pc = "done" /\ Len(exp_file) = MaxExps
    /\ exp_file[1] /= exp_file[MaxExps] /\ SoilTuple(1) = SoilTuple(MaxExps)
    /\ ExpectedSL(1) \in DOMAIN soil_ic
    /\ sol_blocks[1].soil_id = ExpectedSL(1)
    /\ Len(sol_blocks) = Cardinality({SoilTuple(i) : i \in ExpIds})

-----------------------------------------------------------------------------
(* Claims about __add_param_mods                                           *)

Precedence == <<"offset_", "scale_", "max_", "min_", "set_">>
\* the position in Precedence of the first operator the block has for key, or 0
FirstPresent(key, mods) ==
    LET ks == {i \in 1..5 : Has(mods, Precedence[i] \o key)}
    IN  IF ks = {} THEN 0 ELSE CHOOSE i \in ks : \A h \in ks : i <= h
Amount(key, mods) == mods[Precedence[FirstPresent(key, mods)] \o key]
IsNumeric(str) == Double(Str(str)).ok
ValueOf(str) == Double(Str(str)).val
\* v op m in eighths, for the arithmetic operators
Arith(i, v, m) == IF i = 1 THEN v + m ELSE IF i = 2 THEN (v * m) \div 8
                  ELSE IF i = 3 THEN (IF v < m THEN v ELSE m)
                  ELSE (IF v > m THEN v ELSE m)
ModsDone == call.fn = "add_param_mods" /\ ret /= Pending
\* the record of the call matched to the modifier block, and what it became
Matched == call.arr[1]["seqid"] = call.mod_arr[1]["seqid"]
CoefAsExpected(key) ==
    LET v == call.arr[1][key]
        i == FirstPresent(key, call.mod_arr[1])
        r == ret.val[1][key]
    IN  IF i = 0 THEN r = v
        ELSE IF i = 5 THEN r = Amount(key, call.mod_arr[1])
        ELSE (IsNumeric(v) /\ IsNumeric(Amount(key, call.mod_arr[1]))) =>
                /\ IsNumeric(r)
                /\ ValueOf(r) = Arith(i, ValueOf(v), ValueOf(Amount(key, call.mod_arr[1])))

\* C11: a coefficient of a record matched to a modifier block gets exactly the
\* first operator present in the order offset_, scale_, max_, min_, set_
\* (v + m, v * m, min(v, m), max(v, m), m); later operators are ignored, and
\* with no operator the value is kept.
C11_FirstOperatorOnly ==
    (ModsDone /\ Matched) => ret.ok /\ CoefAsExpected("p1") /\ CoefAsExpected("p2")

\* p1 = 100 with offset_p1 = 10 and scale_p1 = 2 has become 110
C11_Witness ==
    /\ ModsDone /\ Matched
    /\ call.arr[1]["p1"] = <<"1", "0", "0">>
    /\ {"offset_p1", "scale_p1"} \subseteq DOMAIN call.mod_arr[1]
    /\ ValueOf(ret.val[1]["p1"]) = 110 * 8

ArithFails(key) ==
    /\ FirstPresent(key, call.mod_arr[1]) \in 1..4
    /\ ~IsNumeric(call.arr[1][key])

\* C12: an arithmetic modifier on a coefficient whose base value is not a
\* number leaves that coefficient as it was, raises nothing, and the other
\* coefficients of the record still get their own operators.
C12_FailureKeepsBase ==
    (ModsDone /\ Matched /\ ArithFails("p1")) =>
        /\ ret.ok
        /\ ret.val[1]["p1"] = call.arr[1]["p1"]
        /\ CoefAsExpected("p2")

\* 'abc' under an offset is kept while p2 = 3 was doubled
C12_Witness ==
    /\ ModsDone /\ Matched /\ ArithFails("p1")
    /\ Has(call.mod_arr[1], "scale_p2")
    /\ ret.val[1]["p1"] = <<"a", "b", "c">>
    /\ ValueOf(ret.val[1]["p2"]) = 6 * 8

------------------------------------------------------------------------------
\* the regression values of a ptransfer call, before line 94 looks at them
RegressionOf(c) ==
    PtChain(Unit - Frac(Double(Str(c.slcly)).val) \div 100
                 - Frac(Double(Str(c.slsil)).val) \div 100,
            Frac(Double(Str(c.slcly)).val) \div 100,
            Frac(Double(Str(c.sloc)).val))
PtDone == call.fn = "ptransfer" /\ ret /= Pending

\* C13: when the regression puts field capacity below the wilting point, ptransfer
\* returns field capacity = wilting point + 0.01; otherwise it returns the regression
\* value of field capacity as it is.
C13_ClampToWiltingPoint ==
    PtDone =>
        /\ ret.ok
        /\ ret.val.slll = RegressionOf(call).slll
        /\ IF RegressionOf(call).AJ18 < RegressionOf(call).slll
           THEN ret.val.sldul = ret.val.slll + 100
           ELSE ret.val.sldul = RegressionOf(call).AJ18
C13_Witness ==
    /\ PtDone /\ ret.ok
    /\ RegressionOf(call).AJ18 < RegressionOf(call).slll
    /\ ret.val.sldul = ret.val.slll + 100

Ordered(v) == v.slll < v.sldul /\ v.sldul < v.slsat
LayerDone == call.fn = "layer" /\ ret /= Pending

\* C14: for every layer written from ptransfer values, wilting point < field capacity
\* < saturation holds for what ptransfer returns and still holds after swc_adjustments,
\* whatever the sign of the delta.
C14_WaterOrdering ==
    /\ PtDone /\ ret.ok => Ordered(ret.val)
    /\ LayerDone /\ ret.ok /\ ret.val.pt =>
           Ordered(ret.val.before) /\ Ordered(ret.val.after)

SwcDone == call.fn = "swc_adjustments" /\ ret /= Pending

\* the half of the requested change that goes to each of slll and sldul (line 108)
HalfChange(c) == c.swc_delta \div 2

\* C15: swc_adjustments never takes the wilting point below 0.04: an input wilting point
\* of at most 0.04 returns all three values unchanged; above 0.04 the wilting point goes
\* down and field capacity up by half the delta each (available water grows by the
\* delta), unless the wilting point would pass 0.04, and then it is exactly 0.04.
C15_WiltingPointFloor ==
    SwcDone =>
        /\ ret.ok
        /\ call.slll <= slll_min =>
               ret.val = [sldul |-> call.sldul, slll |-> call.slll, slsat |-> call.slsat]
        /\ call.slll > slll_min =>
               /\ ret.val.slll >= slll_min
               /\ IF call.slll - HalfChange(call) < slll_min
                  THEN ret.val.slll = slll_min
                  ELSE /\ ret.val.slll = call.slll - HalfChange(call)
                       /\ ret.val.sldul = call.sldul + HalfChange(call)
                       /\ ret.val.sldul - ret.val.slll
                              = (call.sldul - call.slll) + call.swc_delta
C15_Witness ==
    /\ SwcDone /\ ret.ok
    /\ call.slll > slll_min
    /\ call.slll - HalfChange(call) < slll_min
    /\ ret.val.slll = slll_min

\* C16: when swc_adjustments changes the values (input wilting point above 0.04), the
\* returned saturation is at least the returned field capacity + 0.05: it is raised to
\* exactly that when it was below, and is the input saturation otherwise.
C16_SaturationOffset ==
    SwcDone /\ call.slll > slll_min =>
        /\ ret.ok
        /\ ret.val.slsat >= ret.val.sldul + slsat_sldul_min_offset
        /\ IF call.slsat < ret.val.sldul + slsat_sldul_min_offset
           THEN ret.val.slsat = ret.val.sldul + slsat_sldul_min_offset
           ELSE ret.val.slsat = call.slsat
C16_Witness ==
    /\ SwcDone /\ ret.ok
    /\ call.slll > slll_min
    /\ call.slsat < ret.val.sldul + slsat_sldul_min_offset
    /\ ret.val.slsat = ret.val.sldul + slsat_sldul_min_offset

IcDone == call.fn = "initial_conditions" /\ ret /= Pending
\* the layers stored for the record's composite soil id, and its fraction, in eighths
StoredLayers(c) ==
    IF c.sec_data.soil_id_composite \in DOMAIN c.soil_ic
    THEN c.soil_ic[c.sec_data.soil_id_composite] ELSE << >>
FractionFull(c) ==
    IF "frac_full" \in DOMAIN c.sec_data THEN Double(Str(c.sec_data.frac_full)).val ELSE 4
FieldCapacity(layer) == Double(Str(layer.ich2o)).val
CapSh2o == 6                                 \* 0.75, line 713

------------------------------------------------------------------------------
\* the soil id an experiment asks for is not one of the soil source's ids
UnknownSoil(e) == \A k \in 1..Len(soil_ids) : soil_ids[k] /= SoilProfileOf(e)["soil_id"]
FatalInput == Len(exp_file) = 0 \/ \E i \in 1..Len(exp_file) : UnknownSoil(exp_file[i])

\* C18: with an empty experiment list, or with an experiment whose soil id is not among
\* the ids of the soil source, both constructors raise, the run never gets past the
\* construction of DSSATXFileOutput, no row, no soil block and no file is produced, and
\* the run can only end by returning False.
C18_FatalInputs ==
    FatalInput =>
        /\ pc \in {"xinit", "failed"}
        /\ rows = << >> /\ sol_blocks = << >> /\ files = {}
        /\ ret \in {Pending, Ok(FALSE)}
        /\ pc = "failed" <=> ret = Ok(FALSE)
        /\ \A i \in 1..Len(exp_file) :
               UnknownSoil(exp_file[i]) =>
                   /\ ~XInitBody(exp_file[i], << >>, EmptyRec, soil_ids).ok
                   /\ ~SolInitBody(exp_file[i], << >>, soil_ids).ok
C18_Witness ==
    /\ Len(exp_file) = 2
    /\ ~UnknownSoil(exp_file[1]) /\ UnknownSoil(exp_file[2])
    /\ pc = "failed" /\ ret = Ok(FALSE) /\ files = {}
    /\ Len(soil_profiles) = 1

------------------------------------------------------------------------------
\* an experiment that lacks nothing but one commonly expected field
LacksWstId    == Update(TopNoWst, Plain)
LacksSoilId   == Pop(Update(TopA, Plain), "soil_id")
LacksPlanting == Update(TopA, Undated)
OnlyLacks(fields) ==
    /\ Len(exp_file) > 0
    /\ \A i \in 1..Len(exp_file) : exp_file[i] \in fields \cup {Update(TopA, Plain)}
    /\ \A i \in 1..Len(exp_file) : ~UnknownSoil(exp_file[i])

\* C19: an experiment that lacks the date of its planting event, the soil id of its
\* field or the wst_id of its field only draws a warning: the run does not abort, and
\* it ends with both documents written.
C19_MissingFieldsOnlyWarn ==
    OnlyLacks({LacksWstId, LacksSoilId, LacksPlanting}) =>
        /\ pc /= "failed"
        /\ pc = "done" => {"X", "SOL"} \subseteq files /\ ret = Ok(TRUE)

\* the part of it that the code keeps: a planting event without a date
MissingPlantingDateWarns ==
    OnlyLacks({LacksPlanting}) =>
        /\ pc /= "failed"
        /\ pc = "done" => /\ {"X", "SOL"} \subseteq files /\ ret = Ok(TRUE)
                          /\ (\E i \in 1..Len(exp_file) : exp_file[i] = LacksPlanting)
                                 => "Planting PDATE is missing" \in warned
\* a missing wst_id or soil id is a KeyError on line 390 or 417, and the run fails
MissingWstOrSoilIdAborts ==
    (pc \in {"failed", "done"} /\ \E i \in 1..Len(exp_file) : exp_file[i] \in {LacksWstId, LacksSoilId})
        => pc = "failed" /\ ret = Ok(FALSE) /\ "SOL" \notin files

------------------------------------------------------------------------------
\* what the except clause prints: the cell the run was called for
Reported == <<[latidx |-> call.latidx, lonidx |-> call.lonidx]>>

\* C20: run lets no failure out: whatever is raised while loading, assembling, rendering
\* or writing is caught, printed with latidx and lonidx, and turned into the return value
\* False; True is returned only when the experiment file and the soil file, and the
\* cultivar and ecotype files when their text is not empty, have been written.
C20_RunNeverRaises ==
    call.fn = "run" =>
        /\ ret \in {Pending, Ok(TRUE), Ok(FALSE)}
        /\ pc = "failed" <=> ret = Ok(FALSE)
        /\ pc = "done" <=> ret = Ok(TRUE)
        /\ ret = Ok(FALSE) => printed = Reported
        /\ ret /= Ok(FALSE) => printed = << >>
        /\ ret = Ok(TRUE) =>
               /\ {"X", "SOL"} \subseteq files
               /\ tabs.cult_param /= << >> => "CUL" \in files
               /\ tabs.eco_param /= << >> => "ECO" \in files
C20_Witness ==
    /\ call.fn = "run" /\ call.latidx = 2
    /\ pc = "failed" /\ ret = Ok(FALSE) /\ printed = Reported
    /\ tabs.cult_param /= << >> /\ files = {}

------------------------------------------------------------------------------
SmmaDone == call.fn = "create_SMMA_str" /\ ret /= Pending
SubBlocks == <<"GE", "OP", "ME", "MA", "OU", "PL", "IR", "NI", "RE", "HA">>

\* C21: rendering a control set completes without error for every subset of overridden
\* sub-blocks, the empty control set and a set without a 'harvests' override included.
C21_RenderingCompletes == SmmaDone => ret.ok

\* the lines of the sub-blocks, without the AUTOMATIC MANAGEMENT separator
BlockLines(text) == SelectSeq(text, LAMBDA l : l.tag /= "AM")

\* C22: the text returned for a control set has one heading and one data line for each of
\* GENERAL, OPTIONS, METHODS, MANAGEMENT, OUTPUTS, PLANTING, IRRIGATION, NITROGEN,
\* RESIDUES and HARVEST, in that order, whichever of them are overridden.
C22_AllBlocksInOrder ==
    SmmaDone /\ ret.ok =>
        /\ Len(BlockLines(ret.val.text)) = 2 * Len(SubBlocks)
        /\ \A k \in 1..Len(SubBlocks) :
               /\ BlockLines(ret.val.text)[2 * k - 1] = SmHead(SubBlocks[k])
               /\ BlockLines(ret.val.text)[2 * k].tag = SubBlocks[k]
               /\ ~BlockLines(ret.val.text)[2 * k].head

-----------------------------------------------------------------------------
(* Claims about the rows of *TREATMENTS                                    *)

\* the sequences of the experiments the treatment loop has finished, in file order
RECURSIVE SeqsWritten(_, _)
SeqsWritten(i, upto) ==
    IF i > upto THEN << >>
    ELSE [j \in 1..Len(GetList(exps[i], "dssat_sequence", "data")) |-> <<i, j>>]
           \o SeqsWritten(i + 1, upto)
RowKeys == [r \in RowIds |-> <<rows[r].exp, rows[r].seq>>]
OneRowPerSequence ==
    /\ pc = "xrender" => RowKeys = SeqsWritten(1, Len(exps))
    /\ pc = "xseq" => RowKeys = SeqsWritten(1, ei - 1) \o [j \in 1..(sj - 1) |-> <<ei, j>>]
    /\ pc = "xexp" => RowKeys = SeqsWritten(1, ei - 1)

\* C23 as stated: one row per sequence, experiment by experiment, and each of the
\* thirteen section indices right-justified in a field of seven characters.
C23_AsStated ==
    Assembling =>
        /\ OneRowPerSequence
        /\ \A r \in RowIds : \A c \in Sections :
              \E pad \in 0..7 : rows[r].cols[c] = Rep(" ", pad) \o DigitsOf(rows[r].num[c])
                                 /\ Len(rows[r].cols[c]) \in {7, 8}

\* C23 amended: one row per sequence, experiment by experiment, and each of the
\* thirteen section indices written as one blank and then the index left-justified
\* in a field of seven characters.
C23_TreatmentRows ==
    Assembling =>
        /\ OneRowPerSequence
        /\ \A r \in RowIds : \A c \in Sections :
              rows[r].cols[c] = <<" ">> \o DigitsOf(rows[r].num[c])
                                  \o Rep(" ", 7 - Len(DigitsOf(rows[r].num[c])))

\* two experiments of two sequences each: four rows, the last with MI = 2
C23_Witness ==
    /\ AssemblyEnded
    /\ Len(rows) = 4 /\ rows[4].exp = 2 /\ rows[4].seq = 2
    /\ rows[4].cols["mi"] = <<" ", "2", " ", " ", " ", " ", " ", " ">>
-----------------------------------------------------------------------------
(* Claims about the rendering                                              *)

\* C24: once the assembly loop has ended, the rendering only reads: no record of a
\* section table is changed while the sections are written, the planting depth and
\* the year and day of the simulation start included.
C24_RenderingReadOnly == [][pc = "xrender" => tabs' = tabs]_vars
-----------------------------------------------------------------------------
(* Claims about the event lists                                            *)

EventsOfExp(i) == GetList(exp_file[i], "management", "events")
\* the events of experiment i that carry the seqid of its sequence j and are of one kind
EventsOfKind(i, j, kind) ==
    SelectSeq(EventsOfExp(i),
              LAMBDA e : /\ Get(e, "seqid", << >>)
                             = Get(GetList(exp_file[i], "dssat_sequence", "data")[j], "seqid", << >>)
                         /\ Get(e, "event", << >>) = kind)
WithoutSeqid(evts) == [k \in 1..Len(evts) |-> [f \in DOMAIN evts[k] \ {"seqid"} |-> evts[k][f]]]

\* C25: the list of a kind that a sequence gets holds exactly the events of the
\* experiment that carry the seqid of the sequence and are of that kind, in their
\* original order and without the seqid key; the events of the experiment themselves
\* stay as they were read.
C25_EventLists ==
    /\ \A r \in RowIds : \A kind \in DOMAIN EventListOf :
          rows[r].rec[EventListOf[kind]]
              = WithoutSeqid(EventsOfKind(rows[r].exp, rows[r].seq, kind))
    /\ \A i \in 1..Len(exps) :
          GetList(exps[i], "management", "events") = EventsOfExp(i)

\* a sequence with two irrigations, in the order of the file, between events of another
\* sequence, and a harvest
C25_Witness ==
    /\ AssemblyEnded
    /\ \E r \in RowIds :
          /\ rows[r].rec["mi"] = <<Pop(Irr1, "seqid"), Pop(Irr1b, "seqid")>>
          /\ rows[r].rec["mh"] = <<Pop(Harv1, "seqid")>>
          /\ EventsOfExp(rows[r].exp) = <<Plant1, Irr1, Irr2, Fert1, Harv1, Irr1b, Harv2>>
-----------------------------------------------------------------------------
(* Claims about the section tables as lists                                *)

\* C26: an intern keeps the table it finds as a prefix of the table it leaves, and adds
\* one entry at most; a record appended gets the old length plus one as its index; and
\* every record interned so far still sits at the index it was given, so that a later
\* intern of an equal record got that same index, whatever was interned in between.
C26_AppendOnly ==
    /\ Len(arr) \in {Len(arr_before), Len(arr_before) + 1}
    /\ SubSeq(arr, 1, Len(arr_before)) = arr_before
    /\ Len(arr) = Len(arr_before) + 1 => idx_out = Len(arr_before) + 1 /\ arr[idx_out] = m_in
    /\ \A a \in 1..Len(interned) :
          interned[a].m /= EmptyRec =>
              /\ interned[a].idx \in 1..Len(arr) /\ arr[interned[a].idx] = interned[a].m
              /\ \A b \in a..Len(interned) :
                    interned[b].m = interned[a].m => interned[b].idx = interned[a].idx

\* a record, another one, the first again, and a third one that is appended
C26_Witness ==
    /\ Len(interned) = 4
    /\ interned[1].m /= EmptyRec /\ interned[2].m \notin {EmptyRec, interned[1].m}
    /\ interned[3].m = interned[1].m /\ interned[3].idx = 1
    /\ interned[4].idx = 3 /\ Len(arr_before) = 2 /\ Len(arr) = 3
-----------------------------------------------------------------------------
(* Claims about the dates of the experiment file                           *)

\* a date that was translated, not a sentinel or a blank passed through
IsDate(date) == Len(date) >= 5 /\ AllDigits(date)
DatesWritten == {k \in 1..Len(x_dates) : IsDate(x_dates[k].date)}

\* C27: with y2k set every date of the experiment file has the seven digits of
\* YYYYDDD, without it every date has the five digits of YYDDD: initial conditions,
\* planting, emergence, irrigation, fertilizer, residue, chemical, tillage, harvest
\* and the simulation start alike.
C27_OneDateEncoding ==
    \A k \in DatesWritten : Len(x_dates[k].date) = IF call.y2k THEN 7 ELSE 5

\* the part of it the code keeps: without y2k every date is YYDDD, and with y2k the
\* dates of three sections are YYYYDDD
DatesWithoutY2k ==
    \A k \in DatesWritten :
        (~call.y2k \/ x_dates[k].sec \in {"ic", "mp", "mi"})
            => Len(x_dates[k].date) = IF call.y2k THEN 7 ELSE 5
-----------------------------------------------------------------------------
(* Claims about the soil ids across the two documents                      *)

\* the composite id names a soil_ic entry and a block of the soil file, both built
\* from the soil tuple of experiment i
NamesSoilOf(id, i) ==
    /\ id \in DOMAIN soil_ic /\ soil_ic[id].soil_profile = SoilTuple(i)
    /\ \E k \in 1..Len(sol_blocks) :
          /\ sol_blocks[k].soil_id = id
          /\ Pop(sol_blocks[k].soil_profile, "soil_idx") = SoilTuple(i)

\* C28: when both documents are written, the composite soil id in the field record
\* and in the initial-condition record of every row names the soil_ic entry and
\* the soil-file block that were built from the soil tuple of the row's experiment.
C28_SoilIdsAgree ==
    pc = "done" =>
        \A r \in RowIds :
            /\ NamesSoilOf(rows[r].rec["fl"]["soil_id_composite"], rows[r].exp)
            /\ rows[r].rec["ic"] /= EmptyRec =>
                  rows[r].rec["ic"]["soil_id_composite"] = rows[r].rec["fl"]["soil_id_composite"]
-----------------------------------------------------------------------------
(* Claims about the cultivar and ecotype files                             *)

\* the planting events of sequence j of experiment i
PlantingOf(i, j) == EventsOfKind(i, j, Planting)
SeqIdOf(i, j) == Get(GetList(exp_file[i], "dssat_sequence", "data")[j], "seqid", << >>)
\* the parameter set a list of exp.json resolves to for the sequence, its modifiers
\* applied and the crop of the planting event added; {} when the list has none
ResolvedSet(i, j, list_name) ==
    LET base == GetParamsFromId(add_param_mods(Get(exp_file[i], list_name, << >>),
                                               Get(exp_file[i], ModsKey(list_name), << >>)),
                                SeqIdOf(i, j))
    IN  IF base = EmptyRec THEN EmptyRec
        ELSE CopyItem(base, PlantingOf(i, j)[1], "crid", "crid")
\* the rows whose sequence has a planting event that resolves to a cultivar set
ResolvedRows ==
    {r \in RowIds : /\ PlantingOf(rows[r].exp, rows[r].seq) /= << >>
                    /\ ResolvedSet(rows[r].exp, rows[r].seq, "cultivar") /= EmptyRec}
CulDoc == write_cul_file(tabs.cult_param).val
EcoDoc == write_eco_file(tabs.eco_param).val
XWritten == pc \in {"solinit", "solrender", "done"}

\* C29: with a cultivar-file target, the cul_id of the *CULTIVARS record of a sequence is
\* the id of the cultivar-file row that holds the modified parameter set resolved for the
\* sequence, the ECO# of that row is the id of the ecotype-file row that holds the
\* resolved ecotype set, and two sequences have the same cul_id exactly when their
\* cultivar and ecotype sets are equal.
C29_CultivarIdsAgree ==
    (cul_file /\ XWritten) =>
        /\ \A r \in ResolvedRows :
              \E k \in 1..Len(tabs.cult_param) : \E e \in 1..Len(tabs.eco_param) :
                  /\ Pop(tabs.cult_param[k], "eco")
                        = ResolvedSet(rows[r].exp, rows[r].seq, "cultivar")
                  /\ tabs.eco_param[e] = ResolvedSet(rows[r].exp, rows[r].seq, "ecotype")
                  /\ rows[r].rec["cu"]["cul_id"] = CulDoc[k + 1].culid
                  /\ CulDoc[k + 1].eco = EcoDoc[e + 1].eco
        /\ \A a, b \in ResolvedRows :
              rows[a].rec["cu"]["cul_id"] = rows[b].rec["cu"]["cul_id"]
                <=> \A n \in {"cultivar", "ecotype"} :
                       ResolvedSet(rows[a].exp, rows[a].seq, n)
                         = ResolvedSet(rows[b].exp, rows[b].seq, n)

\* two experiments with the same modified cultivar share CC0000, or two with different
\* ones have CC0000 and CC0001
C29_Witness ==
    /\ cul_file /\ pc = "done" /\ files = {"X", "CUL", "ECO", "SOL"}
    /\ Len(tabs.cult_param) = 2 /\ Len(tabs.eco_param) = 1
    /\ \E a, b \in ResolvedRows :
          /\ rows[a].rec["cu"]["cul_id"] = <<"C", "C", "0", "0", "0", "0">>
          /\ rows[b].rec["cu"]["cul_id"] = <<"C", "C", "0", "0", "0", "1">>
          /\ tabs.cult_param[1]["p1"] /= tabs.cult_param[2]["p1"]

\* C30: __add_param_mods leaves the cultivar and ecotype records of the experiment as
\* they were read, so that a second pass starts from the same base values.
C30_BaseRecordsUnchanged ==
    \A i \in 1..Len(exps) : \A n \in {"cultivar", "ecotype"} :
        Get(exps[i], n, << >>) = Get(exp_file[i], n, << >>)
====
